---- MODULE Spec2Model ----
(***************************************************************************)
(* Model of the editing core of vegetor: the text Buffer (lines + caret),  *)
(* its BufferReader, and the EditArea viewport (display area, scroll       *)
(* offset, dirty flag).                                                    *)
(*                                                                         *)
(* A Rust String is modelled as its UTF-8 byte sequence.  The alphabet has *)
(* one-byte characters "a", " ", "CR", "LF" and one two-byte character "E" *)
(* (standing for e-acute), whose bytes are "E1" (lead) and "E2"            *)
(* (continuation).  Byte indices and character counts therefore differ     *)
(* exactly as they do in the program.                                      *)
(***************************************************************************)
EXTENDS Integers, Sequences, FiniteSets, TLC

VARIABLES
    windows,                \* cfg!(target_os = "windows"), fixed by the build
    lines,                  \* Buffer.lines : Vec<String>
    caret,                  \* Buffer.caret : Location
    display_area,           \* EditArea.display_area (its Size)
    buffer_display_offset,  \* EditArea.buffer_display_offset
    need_printing,          \* EditArea.need_printing
    welcome_buffer,         \* EditArea.welcome_buffer (its lines)
    status_bar,             \* Editor.status_bar : StatusBar
    state,                  \* Editor.state : State
    pc,                     \* where the program is: build, the loop of run, done
    debug_assertions,       \* cfg(debug_assertions), fixed by the build
    aborted,                \* the process panicked (unwrap / slice / index)
    reader,                 \* the BufferReader borrowed from the buffer, if any
    last                    \* the last operation, its inputs, pre-state and result

vars == <<windows, lines, caret, display_area, buffer_display_offset,
          need_printing, welcome_buffer, status_bar, state, pc,
          debug_assertions, aborted, reader, last>>

\* ---------------------------------------------------------------- bounds

MaxMoveLen == 4      \* longest short text the caret commands run on (characters)
MaxPrintLen == 3     \* longest text painted by print_to (characters)
MaxWelcomeLen == 3   \* longest short welcome text (characters)
MaxAreaSide == 3     \* widths and heights of the areas the welcome screen is fitted to
MaxBarWidth == 4     \* widest status bar
MaxPadding == 2      \* largest left or right padding of the status bar content
MaxContentLen == 3   \* longest status bar content (characters)
MaxTypedBytes == 1   \* the editor's buffer takes typed text while shorter than this (bytes)
MaxReadLen == 4      \* longest file text walked by a BufferReader (characters)
MaxTextLen == 3      \* longest file text loaded in SpecLoad (characters)
MaxWriteLen == 2     \* longest text handed to write_str (characters)
MaxBufBytes == 2     \* write_str is applied to buffers of at most this many bytes
MaxSeek == 2         \* seek_unchecked targets lie in 0..MaxSeek x 0..MaxSeek
MaxEditLen == 2      \* longest short text edited in the viewport (characters)
TallLines == 8       \* number of lines of the tall text
WideCols == 12       \* number of columns of the wide text

\* ------------------------------------------------------- characters, str

Alphabet == {"a", "E", "CR", "LF"}

len_utf8(c) == IF c = "E" THEN 2 ELSE 1

encode_utf8(c) == IF c = "E" THEN <<"E1", "E2">> ELSE <<c>>

is_whitespace(c) == c \in {" ", "CR", "LF"}

is_control(c) == c \in {"CR", "LF"}

RECURSIVE Encode(_)
\* The UTF-8 bytes of a character sequence.
Encode(cs) == IF cs = <<>> THEN <<>> ELSE encode_utf8(Head(cs)) \o Encode(Tail(cs))

\* str::is_char_boundary
is_char_boundary(s, i) ==
    \/ i = 0
    \/ i = Len(s)
    \/ i < Len(s) /\ s[i + 1] # "E2"

\* CharsCount::chars_count : self.chars().count()
chars_count(s) == Cardinality({i \in 1..Len(s) : s[i] # "E2"})

\* s[i..].chars().next().unwrap(), for i a character boundary below s.len()
first_char_from(s, i) == IF s[i + 1] = "E1" THEN "E" ELSE s[i + 1]

\* s[..i].chars().rev().next().unwrap(), for i a character boundary above 0
last_char_to(s, i) == IF s[i] = "E2" THEN "E" ELSE s[i]

\* String::insert(idx, ch), for idx a character boundary
insert(s, idx, c) == SubSeq(s, 1, idx) \o encode_utf8(c) \o SubSeq(s, idx + 1, Len(s))

\* Vec::insert(idx, element)
vec_insert(v, idx, e) == SubSeq(v, 1, idx) \o <<e>> \o SubSeq(v, idx + 1, Len(v))

RECURSIVE split(_)
\* str::split('\n')
split(s) ==
    IF \A i \in 1..Len(s) : s[i] # "LF" THEN <<s>>
    ELSE LET i == CHOOSE k \in 1..Len(s) :
                      s[k] = "LF" /\ \A j \in 1..(k - 1) : s[j] # "LF"
         IN  <<SubSeq(s, 1, i - 1)>> \o split(SubSeq(s, i + 1, Len(s)))

RECURSIVE trim_start(_)
trim_start(s) ==
    IF s # <<>> /\ Head(s) \in {"CR", "LF"} THEN trim_start(Tail(s)) ELSE s

RECURSIVE trim_end(_)
trim_end(s) ==
    IF s # <<>> /\ s[Len(s)] \in {"CR", "LF"}
    THEN trim_end(SubSeq(s, 1, Len(s) - 1)) ELSE s

\* str::trim_matches(|c| c == '\r' || c == '\n')
trim_matches(s) == trim_end(trim_start(s))

RECURSIVE join(_, _)
\* [String]::join(sep)
join(v, sep) ==
    IF v = <<>> THEN <<>>
    ELSE IF Len(v) = 1 THEN v[1]
    ELSE v[1] \o sep \o join(Tail(v), sep)

LINE_SEP == IF windows THEN <<"CR", "LF">> ELSE <<"LF">>

\* ------------------------------------------------------------- geometry

Location(x, y) == [x |-> x, y |-> y]

Size(w, h) == [width |-> w, height |-> h]

\* Location::default
NoLoc == Location(0, 0)

\* --------------------------------------------------------------- Buffer

lines_num(ls) == Len(ls)

\* Buffer::get(idx).is_some()
has_line(ls, idx) == idx < Len(ls)

\* Buffer::ensure_current_line : push empty lines until line caret.y exists
ensure_current_line(ls, c) ==
    IF has_line(ls, c.y) THEN ls
    ELSE ls \o [i \in 1..(c.y + 1 - Len(ls)) |-> <<>>]

\* Buffer::check_caret : "Ok", "CaretOutOfHeight" or "CaretOutOfLen"
check_caret(ls, c) ==
    IF c.y >= lines_num(ls) THEN "CaretOutOfHeight"
    ELSE LET len == IF ~has_line(ls, c.y) THEN 0 ELSE Len(ls[c.y + 1])
         IN  IF c.x > len THEN "CaretOutOfLen" ELSE "Ok"

\* Buffer::clear
clear(ls, c) == [lines |-> <<>>, caret |-> Location(0, 0)]

\* Mutant of load_lines: a trailing empty piece is dropped, as str::lines() does.
load_lines_dropping_last(s) ==
    LET parts == split(s)
        kept == IF Len(parts) > 1 /\ parts[Len(parts)] = <<>>
                THEN SubSeq(parts, 1, Len(parts) - 1) ELSE parts
    IN  [i \in 1..Len(kept) |-> trim_matches(kept[i])]

\* s.split('\n').map(|x| x.trim_matches(..).to_string()).collect()
load_lines(s) == LET parts == split(s)
                 IN  [i \in 1..Len(parts) |-> trim_matches(parts[i])]

\* Mutant of load: the caret column is the byte length of the last line.
load_byte_caret(ls, c, s) ==
    LET new_lines == load_lines(s)
        new_caret == Location(Len(new_lines[Len(new_lines)]), Len(new_lines) - 1)
    IN  [lines |-> new_lines, caret |-> new_caret]

\* Buffer::load after fs::read_to_string returned Ok(s)
load(ls, c, s) ==
    LET cleared == clear(ls, c)
        new_lines == load_lines(s)
        line_cnt == Len(new_lines)
        new_caret == IF line_cnt = 0 THEN Location(0, 0)
                     ELSE Location(chars_count(new_lines[line_cnt]), line_cnt - 1)
    IN  [lines |-> ensure_current_line(new_lines, new_caret), caret |-> new_caret]

\* Buffer::load when fs::read_to_string fails: clear() has run, `?` returns the error
load_failed(ls, c) == clear(ls, c)

\* Buffer::save : the text handed to fs::write
save_text(ls) == join(ls, LINE_SEP)

\* impl fmt::Display for Buffer
display_text(ls) == join(ls, <<"LF">>)

RECURSIVE write_chars(_, _, _)
\* the loop of write_str over s.chars(); res is "Ok" or "panic"
write_chars(ls, c, s) ==
    IF s = <<>> THEN [lines |-> ls, caret |-> c, res |-> "Ok"]
    ELSE LET ch == Head(s)
             line == ls[c.y + 1]
         IN  IF ~is_control(ch) /\ ch # "CR" THEN
                 IF ~is_char_boundary(line, c.x)
                 THEN [lines |-> ls, caret |-> c, res |-> "panic"]
                 ELSE write_chars([ls EXCEPT ![c.y + 1] = insert(line, c.x, ch)],
                                  Location(c.x + 1, c.y), Tail(s))
             ELSE IF ch = "LF" THEN
                 IF ~is_char_boundary(line, c.x)
                 THEN [lines |-> ls, caret |-> c, res |-> "panic"]
                 ELSE write_chars(
                          vec_insert([ls EXCEPT ![c.y + 1] = SubSeq(line, 1, c.x)],
                                     c.y + 1, SubSeq(line, c.x + 1, Len(line))),
                          Location(0, c.y + 1), Tail(s))
             ELSE write_chars(ls, c, Tail(s))

\* Mutant of write_str: only the caret's row is validated before writing.
write_str_row_check_only(ls, c, s) ==
    IF c.y >= lines_num(ls)
    THEN [lines |-> ls, caret |-> c, res |-> "Err"]
    ELSE write_chars(ls, c, s)

\* impl fmt::Write for Buffer :: write_str
write_str(ls, c, s) ==
    IF check_caret(ls, c) # "Ok"
    THEN [lines |-> ls, caret |-> c, res |-> "Err"]
    ELSE write_chars(ls, c, s)

\* -------------------------------------------------------- BufferReader

\* The characters is_whitespace holds of, and the others
Blank == {"LF", "CR", " "}

NotBlank == {"a", "E"}

ReaderResult(c, ch, res) == [caret |-> c, ch |-> ch, res |-> res]

\* next that yields a newline after every line, the last one included
reader_next_newline_after_last(ls, rc) ==
    IF ~has_line(ls, rc.y) THEN ReaderResult(rc, "None", "Ok")
    ELSE LET line == ls[rc.y + 1]
         IN  IF rc.x >= Len(line)
             THEN ReaderResult(Location(0, rc.y + 1), "LF", "Ok")
             ELSE IF ~is_char_boundary(line, rc.x)
             THEN ReaderResult(rc, "None", "panic")
             ELSE LET ch == first_char_from(line, rc.x)
                  IN  ReaderResult(Location(rc.x + len_utf8(ch), rc.y), ch, "Ok")

\* impl Iterator for BufferReader :: next; ch is a character or "None"
reader_next(ls, rc) ==
    IF ~has_line(ls, rc.y) THEN ReaderResult(rc, "None", "Ok")
    ELSE LET line == ls[rc.y + 1]
         IN  IF rc.x >= Len(line)
             THEN ReaderResult(Location(0, rc.y + 1),
                               IF has_line(ls, rc.y + 1) THEN "LF" ELSE "None", "Ok")
             ELSE IF ~is_char_boundary(line, rc.x)
             THEN ReaderResult(rc, "None", "panic")
             ELSE LET ch == first_char_from(line, rc.x)
                  IN  ReaderResult(Location(rc.x + len_utf8(ch), rc.y), ch, "Ok")

\* BufferReader::prev
reader_prev(ls, rc) ==
    IF rc.x = 0 THEN
        IF rc.y = 0 THEN ReaderResult(rc, "None", "Ok")
        ELSE IF ~has_line(ls, rc.y - 1) THEN ReaderResult(rc, "None", "panic")
        ELSE ReaderResult(Location(Len(ls[rc.y]), rc.y - 1), "LF", "Ok")
    ELSE IF ~has_line(ls, rc.y) THEN ReaderResult(rc, "None", "panic")
    ELSE LET line == ls[rc.y + 1]
         IN  IF ~is_char_boundary(line, rc.x)
             THEN ReaderResult(rc, "None", "panic")
             ELSE LET ch == last_char_to(line, rc.x)
                  IN  ReaderResult(Location(rc.x - len_utf8(ch), rc.y), ch, "Ok")

\* BufferReader::peek
reader_peek(ls, rc) ==
    IF ~has_line(ls, rc.y) THEN ReaderResult(rc, "None", "Ok")
    ELSE LET line == ls[rc.y + 1]
         IN  IF rc.x < Len(line) THEN
                 IF ~is_char_boundary(line, rc.x)
                 THEN ReaderResult(rc, "None", "panic")
                 ELSE ReaderResult(rc, first_char_from(line, rc.x), "Ok")
             ELSE IF rc.y = lines_num(ls) THEN ReaderResult(rc, "None", "Ok")
             ELSE ReaderResult(rc, "LF", "Ok")

\* The element of a one-element set.  {F(v) : v \in {e}} evaluates e once and
\* binds v to its value, where LET would evaluate e again at each use.
TheOne(S) == CHOOSE v \in S : TRUE

RECURSIVE skip_until_from(_, _, _, _)
\* the loop of BufferReader::skip_until; f holds of the characters in S
skip_until_from(ls, origin_caret, rc, S) ==
    TheOne({ IF r.res = "panic" THEN [caret |-> rc, res |-> "panic"]
             ELSE IF r.ch = "None" THEN [caret |-> origin_caret, res |-> "EndOfFile"]
             ELSE IF r.ch \in S THEN [caret |-> rc, res |-> "Ok"]
             ELSE skip_until_from(ls, origin_caret, r.caret, S)
           : r \in {reader_next(ls, rc)} })

\* BufferReader::skip_until
skip_until(ls, rc, S) == skip_until_from(ls, rc, rc, S)

RECURSIVE back_until_from(_, _, _, _)
\* the loop of BufferReader::back_until
back_until_from(ls, origin_caret, rc, S) ==
    TheOne({ IF r.res = "panic" THEN [caret |-> rc, res |-> "panic"]
             ELSE IF r.ch = "None" THEN [caret |-> origin_caret, res |-> "EndOfFile"]
             ELSE IF r.ch \in S THEN [caret |-> rc, res |-> "Ok"]
             ELSE back_until_from(ls, origin_caret, r.caret, S)
           : r \in {reader_prev(ls, rc)} })

\* BufferReader::back_until
back_until(ls, rc, S) == back_until_from(ls, rc, rc, S)

\* ------------------------------------------------------------- EditArea

VERTICAL_PADDING == 3

HORIZONTAL_PADDING == 5

Min(a, b) == IF a < b THEN a ELSE b

\* usize::saturating_sub
saturating_sub(a, b) == IF a > b THEN a - b ELSE 0

\* EditArea::get_cursor
get_cursor(c, area, off) ==
    Location(Min(saturating_sub(c.x, off.x), area.width),
             Min(saturating_sub(c.y, off.y), area.height))

\* &line[a..b] : "panic" unless a <= b <= line.len() and both are character
\* boundaries
slice(line, a, b) ==
    IF a <= b /\ b <= Len(line) /\ is_char_boundary(line, a) /\ is_char_boundary(line, b)
    THEN SubSeq(line, a + 1, b)
    ELSE "panic"

\* the body of the loop of EditArea::print_to for one display row: what
\* terminal.print receives after the row is cleared (<<>> when nothing is printed)
print_row(ls, area, off, row) ==
    IF ~has_line(ls, row + off.y) THEN <<>>
    ELSE LET line == ls[row + off.y + 1]
             len == Min(area.width, saturating_sub(chars_count(line), off.x))
         IN  IF len > 0 THEN slice(line, off.x, off.x + len) ELSE <<>>

\* EditArea::print_to : the text printed on each display row
print_to(ls, area, off) ==
    LET rows == [r \in 1..area.height |-> print_row(ls, area, off, r - 1)]
    IN  [res |-> IF \E r \in 1..area.height : rows[r] = "panic" THEN "panic" ELSE "Ok",
         out |-> rows]

\* Buffer::max_width
max_width(ls) ==
    IF ls = <<>> THEN 0
    ELSE Len(ls[CHOOSE i \in 1..Len(ls) : \A j \in 1..Len(ls) : Len(ls[j]) <= Len(ls[i])])

\* Buffer::size
size(ls) == Size(max_width(ls), lines_num(ls))

\* Size::partial_cmp accepting a pair that is smaller in one dimension only
partial_cmp_either(a, b) ==
    IF a.width = b.width /\ a.height = b.height THEN "Equal"
    ELSE IF a.width <= b.width /\ a.height <= b.height THEN "Less"
    ELSE IF a.width >= b.width /\ a.height >= b.height THEN "Greater"
    ELSE "None"

\* impl PartialOrd for Size : partial_cmp
partial_cmp(a, b) ==
    IF a.width < b.width /\ a.height < b.height THEN "Less"
    ELSE IF a.width > b.width /\ a.height > b.height THEN "Greater"
    ELSE IF a.width = b.width /\ a.height = b.height THEN "Equal"
    ELSE "None"

\* the rows EditArea::print_welcome_to prints once the fit check passed: for
\* each line of the welcome buffer the terminal row, the column, and the line
welcome_rows(wb, area) ==
    LET buffer_size == size(wb)
        start_column == area.width \div 2
        start_row == area.height \div 2 - buffer_size.height \div 2
    IN  [i \in 1..buffer_size.height |->
           [row |-> i - 1 + start_row,
            column |-> start_column - chars_count(wb[i]) \div 2,
            text |-> wb[i]]]

\* print_welcome_to whose fit check accepts an area equal to the buffer
print_welcome_to_accepts_equal(wb, area) ==
    IF partial_cmp(area, size(wb)) \notin {"Greater", "Equal"}
    THEN [res |-> "BufferSizeExceeds", out |-> <<>>]
    ELSE [res |-> "Ok", out |-> welcome_rows(wb, area)]

\* EditArea::print_welcome_to : the result and what reaches the terminal
print_welcome_to(wb, area) ==
    IF partial_cmp(area, size(wb)) # "Greater"
    THEN [res |-> "BufferSizeExceeds", out |-> <<>>]
    ELSE [res |-> "Ok", out |-> welcome_rows(wb, area)]

\* update_display_offset without the bottom-pinning check
update_display_offset_no_pin(ls, c, area, off) ==
    LET h == area.height
        w == area.width
        n == lines_num(ls)
        v_padding == IF h >= 2 * VERTICAL_PADDING THEN VERTICAL_PADDING ELSE 0
        y_display == c.y - off.y
        y1 == IF y_display >= h - v_padding
              THEN saturating_sub(Min(c.y + v_padding, n), h)
              ELSE IF y_display < v_padding
              THEN (IF c.y >= v_padding THEN c.y - v_padding ELSE 0)
              ELSE off.y
        h_padding == IF w >= 2 * HORIZONTAL_PADDING THEN HORIZONTAL_PADDING ELSE 0
        x_display == c.x - off.x
        x1 == IF x_display < h_padding
              THEN (IF c.x < h_padding THEN 0 ELSE c.x - h_padding)
              ELSE IF x_display > w - h_padding
              THEN saturating_sub(c.x + h_padding, w)
              ELSE off.x
        new == Location(x1, y1)
    IN  [offset |-> new, changed |-> new # off, res |-> "Ok"]

\* update_display_offset whose upward branch keeps the offset when the caret is
\* within the padding of the first line
update_display_offset_no_top(ls, c, area, off) ==
    LET h == area.height
        w == area.width
        n == lines_num(ls)
        v_padding == IF h >= 2 * VERTICAL_PADDING THEN VERTICAL_PADDING ELSE 0
        y_display == c.y - off.y
        y1 == IF y_display >= h - v_padding
              THEN saturating_sub(Min(c.y + v_padding, n), h)
              ELSE IF y_display < v_padding
              THEN (IF c.y >= v_padding THEN c.y - v_padding ELSE off.y)
              ELSE off.y
        overflow == n > h /\ (y1 > n \/ saturating_sub(h, n - y1) > y1)
        y2 == IF n > h /\ ~overflow THEN y1 - saturating_sub(h, n - y1) ELSE y1
        h_padding == IF w >= 2 * HORIZONTAL_PADDING THEN HORIZONTAL_PADDING ELSE 0
        x_display == c.x - off.x
        x1 == IF x_display < h_padding
              THEN (IF c.x < h_padding THEN 0 ELSE c.x - h_padding)
              ELSE IF x_display > w - h_padding
              THEN saturating_sub(c.x + h_padding, w)
              ELSE off.x
        new == Location(x1, y2)
    IN  [offset |-> new, changed |-> new # off,
         res |-> IF overflow THEN "panic" ELSE "Ok"]

\* EditArea::update_display_offset; res is "panic" when a usize subtraction
\* overflows (lines_num - offset.y, or offset.y -= ...)
update_display_offset(ls, c, area, off) ==
    LET h == area.height
        w == area.width
        n == lines_num(ls)
        v_padding == IF h >= 2 * VERTICAL_PADDING THEN VERTICAL_PADDING ELSE 0
        y_display == c.y - off.y
        y1 == IF y_display >= h - v_padding
              THEN saturating_sub(Min(c.y + v_padding, n), h)
              ELSE IF y_display < v_padding
              THEN (IF c.y >= v_padding THEN c.y - v_padding ELSE 0)
              ELSE off.y
        overflow == n > h /\ (y1 > n \/ saturating_sub(h, n - y1) > y1)
        y2 == IF n > h /\ ~overflow THEN y1 - saturating_sub(h, n - y1) ELSE y1
        h_padding == IF w >= 2 * HORIZONTAL_PADDING THEN HORIZONTAL_PADDING ELSE 0
        x_display == c.x - off.x
        x1 == IF x_display < h_padding
              THEN (IF c.x < h_padding THEN 0 ELSE c.x - h_padding)
              ELSE IF x_display > w - h_padding
              THEN saturating_sub(c.x + h_padding, w)
              ELSE off.x
        new == Location(x1, y2)
    IN  [offset |-> new, changed |-> new # off,
         res |-> IF overflow THEN "panic" ELSE "Ok"]

MoveResult(c, off, np, res, cursor) ==
    [caret |-> c, offset |-> off, np |-> np, res |-> res, cursor |-> cursor]

\* move_caret_to that marks the area dirty on every move
move_caret_to_always_dirty(ls, c, area, off, np, target) ==
    IF check_caret(ls, target) # "Ok"
    THEN MoveResult(c, off, np, check_caret(ls, target), NoLoc)
    ELSE TheOne({ MoveResult(target, u.offset, TRUE,
                             u.res, get_cursor(target, area, u.offset))
                : u \in {update_display_offset(ls, target, area, off)} })

\* move_caret_to that commits the caret before it validates it
move_caret_to_seeks_first(ls, c, area, off, np, target) ==
    IF check_caret(ls, target) # "Ok"
    THEN MoveResult(target, off, np, check_caret(ls, target), NoLoc)
    ELSE TheOne({ MoveResult(target, u.offset, IF u.changed THEN TRUE ELSE np,
                             u.res, get_cursor(target, area, u.offset))
                : u \in {update_display_offset(ls, target, area, off)} })

\* EditArea::move_caret_to; res is "Ok", the check_caret error, or "panic"
move_caret_to(ls, c, area, off, np, target) ==
    IF check_caret(ls, target) # "Ok"
    THEN MoveResult(c, off, np, check_caret(ls, target), NoLoc)
    ELSE TheOne({ MoveResult(target, u.offset, IF u.changed THEN TRUE ELSE np,
                             u.res, get_cursor(target, area, u.offset))
                : u \in {update_display_offset(ls, target, area, off)} })

\* Result::unwrap on the result of move_caret_to
unwrap(r) == IF r.res = "Ok" THEN r ELSE [r EXCEPT !.res = "panic"]

\* a panic before move_caret_to is reached
Panicked(c, off, np) == MoveResult(c, off, np, "panic", NoLoc)

\* EditArea::move_caret_left
move_caret_left(ls, c, area, off, np) ==
    LET target ==
            IF c.x = 0 THEN
                IF c.y > 0 THEN
                    IF has_line(ls, c.y - 1)
                    THEN Location(chars_count(ls[c.y]), c.y - 1)
                    ELSE Location(c.x, 0)
                ELSE c
            ELSE Location(c.x - 1, c.y)
    IN  unwrap(move_caret_to(ls, c, area, off, np, target))

\* EditArea::move_caret_right
move_caret_right(ls, c, area, off, np) ==
    LET target ==
            IF ~has_line(ls, c.y) THEN Location(0, lines_num(ls))
            ELSE IF c.x = chars_count(ls[c.y + 1]) THEN
                IF has_line(ls, c.y + 1) THEN Location(0, c.y + 1) ELSE c
            ELSE Location(c.x + 1, c.y)
    IN  unwrap(move_caret_to(ls, c, area, off, np, target))

\* move_caret_up that keeps the column
move_caret_up_keeps_column(ls, c, area, off, np) ==
    LET target ==
            IF c.y # 0 /\ has_line(ls, c.y - 1)
            THEN Location(c.x, c.y - 1)
            ELSE c
    IN  unwrap(move_caret_to(ls, c, area, off, np, target))

\* EditArea::move_caret_up
move_caret_up(ls, c, area, off, np) ==
    LET target ==
            IF c.y # 0 /\ has_line(ls, c.y - 1)
            THEN Location(Min(c.x, chars_count(ls[c.y])), c.y - 1)
            ELSE c
    IN  unwrap(move_caret_to(ls, c, area, off, np, target))

\* EditArea::move_caret_down
move_caret_down(ls, c, area, off, np) ==
    LET target ==
            IF has_line(ls, c.y + 1)
            THEN Location(Min(c.x, chars_count(ls[c.y + 2])), c.y + 1)
            ELSE c
    IN  unwrap(move_caret_to(ls, c, area, off, np, target))

\* EditArea::move_caret_to_global_end
move_caret_to_global_end(ls, c, area, off, np) ==
    IF lines_num(ls) # 0
    THEN unwrap(move_caret_to(ls, c, area, off, np,
                              Location(Len(ls[lines_num(ls)]), lines_num(ls) - 1)))
    ELSE MoveResult(c, off, np, "Ok", Location(0, 0))

\* EditArea::move_caret_to_global_start
move_caret_to_global_start(ls, c, area, off, np) ==
    unwrap(move_caret_to(ls, c, area, off, np, Location(0, 0)))

\* move_caret_to_next_word that stays where the first scan ended when the
\* second scan reports EndOfFile
move_caret_to_next_word_keeps_scan(ls, c, area, off, np) ==
    IF check_caret(ls, c) # "Ok" THEN Panicked(c, off, np)
    ELSE TheOne({
           IF s1.res = "panic" THEN Panicked(c, off, np)
           ELSE IF s1.res # "Ok" THEN move_caret_to_global_end(ls, c, area, off, np)
           ELSE TheOne({
                  IF s2.res = "panic" THEN Panicked(c, off, np)
                  ELSE unwrap(move_caret_to(ls, c, area, off, np, s2.caret))
                : s2 \in {skip_until(ls, s1.caret, NotBlank)} })
         : s1 \in {skip_until(ls, c, Blank)} })

\* EditArea::move_caret_to_next_word
move_caret_to_next_word(ls, c, area, off, np) ==
    IF check_caret(ls, c) # "Ok" THEN Panicked(c, off, np)
    ELSE TheOne({
           IF s1.res = "panic" THEN Panicked(c, off, np)
           ELSE IF s1.res # "Ok" THEN move_caret_to_global_end(ls, c, area, off, np)
           ELSE TheOne({
                  IF s2.res = "panic" THEN Panicked(c, off, np)
                  ELSE IF s2.res # "Ok"
                  THEN move_caret_to_global_end(ls, c, area, off, np)
                  ELSE unwrap(move_caret_to(ls, c, area, off, np, s2.caret))
                : s2 \in {skip_until(ls, s1.caret, NotBlank)} })
         : s1 \in {skip_until(ls, c, Blank)} })

\* EditArea::move_caret_to_prev_word
move_caret_to_prev_word(ls, c, area, off, np) ==
    IF check_caret(ls, c) # "Ok" THEN Panicked(c, off, np)
    ELSE TheOne({
           IF pk.res = "panic" THEN Panicked(c, off, np)
           ELSE TheOne({
             IF b0.res = "panic" THEN Panicked(c, off, np)
             ELSE IF b0.res # "Ok"
             THEN move_caret_to_global_start(ls, c, area, off, np)
             ELSE TheOne({
               IF b1.res = "panic" THEN Panicked(c, off, np)
               ELSE IF b1.res # "Ok"
               THEN move_caret_to_global_start(ls, c, area, off, np)
               ELSE TheOne({
                 IF b2.res = "panic" THEN Panicked(c, off, np)
                 ELSE IF b2.res # "Ok"
                 THEN move_caret_to_global_start(ls, c, area, off, np)
                 ELSE unwrap(move_caret_to(ls, c, area, off, np, b2.caret))
               : b2 \in {back_until(ls, b1.caret, Blank)} })
             : b1 \in {back_until(ls, b0.caret, NotBlank)} })
           : b0 \in {IF pk.ch \in NotBlank THEN back_until(ls, c, Blank)
                     ELSE [caret |-> c, res |-> "Ok"]} })
         : pk \in {reader_peek(ls, c)} })

\* EditArea::move_caret_to_line_end
move_caret_to_line_end(ls, c, area, off, np) ==
    IF ~has_line(ls, c.y) THEN Panicked(c, off, np)
    ELSE unwrap(move_caret_to(ls, c, area, off, np, Location(Len(ls[c.y + 1]), c.y)))

\* EditArea::move_caret_to_line_start
move_caret_to_line_start(ls, c, area, off, np) ==
    unwrap(move_caret_to(ls, c, area, off, np, Location(0, c.y)))

\* enum CaretMove
ImplementedMoves == {"Left", "Right", "Up", "Down", "NextWord", "PrevWord",
                     "LineStart", "LineEnd", "GlobalStart", "GlobalEnd"}

CaretMove == ImplementedMoves \cup {"PageUp", "PageDown", "PrevTrace", "NextTrace"}

\* EditArea::move_caret
move_caret(ls, c, area, off, np, caret_move) ==
    CASE caret_move = "Left" -> move_caret_left(ls, c, area, off, np)
      [] caret_move = "Right" -> move_caret_right(ls, c, area, off, np)
      [] caret_move = "Up" -> move_caret_up(ls, c, area, off, np)
      [] caret_move = "Down" -> move_caret_down(ls, c, area, off, np)
      [] caret_move = "NextWord" -> move_caret_to_next_word(ls, c, area, off, np)
      [] caret_move = "PrevWord" -> move_caret_to_prev_word(ls, c, area, off, np)
      [] caret_move = "GlobalEnd" -> move_caret_to_global_end(ls, c, area, off, np)
      [] caret_move = "GlobalStart" -> move_caret_to_global_start(ls, c, area, off, np)
      [] caret_move = "LineEnd" -> move_caret_to_line_end(ls, c, area, off, np)
      [] caret_move = "LineStart" -> move_caret_to_line_start(ls, c, area, off, np)
      [] OTHER -> Panicked(c, off, np)

\* ----------------------------------------------------------- StatusBar

\* enum Packing
Packing(kind, l, r) == [kind |-> kind, l_padding |-> l, r_padding |-> r]

Center == Packing("Center", 0, 0)

\* StatusBar::new
StatusBar_new ==
    [display_line |-> 0, display_start |-> 0, display_width |-> 0,
     content |-> <<>>, content_packing |-> Center, need_printing |-> FALSE]

\* StatusBar::set_packing
set_packing(sb, packing) == [sb EXCEPT !.content_packing = packing]

\* StatusBar::set_content
set_content(sb, s) ==
    [sb EXCEPT !.content = s,
               !.need_printing = IF sb.content # s THEN TRUE ELSE sb.need_printing]

\* StatusBar::configure_area, for Area::new(x, y, w, _)
status_bar_configure_area(sb, x, y, w) ==
    [sb EXCEPT !.display_line = y, !.display_start = x, !.display_width = w,
               !.need_printing = TRUE]

\* the (display_width, display_start) pair StatusBar::print_to computes from
\* the packing
packed_range(sb) ==
    LET w == sb.display_width
        l == sb.content_packing.l_padding
        r == sb.content_packing.r_padding
        n == Len(sb.content)
    IN  CASE sb.content_packing.kind = "Center" ->
               [display_width |-> Min(n, w),
                display_start |-> sb.display_start + (w \div 2 - Min(n, w) \div 2)]
          [] sb.content_packing.kind = "Left" ->
               IF w > l + r
               THEN [display_width |-> w - l - r, display_start |-> sb.display_start + l]
               ELSE [display_width |-> w, display_start |-> sb.display_start]
          [] sb.content_packing.kind = "Right" ->
               IF w > l + r
               THEN [display_width |-> w - l - r,
                     display_start |-> sb.display_start + w - r - Min(n, w - l - r)]
               ELSE [display_width |-> w,
                     display_start |-> sb.display_start + w - Min(n, w)]

\* StatusBar::print_to : the two terminal.print calls, each with the Location
\* handed to terminal.move_cursor_to before it
status_bar_print_to(sb) ==
    LET range == packed_range(sb)
        line == slice(sb.content, 0, Min(range.display_width, Len(sb.content)))
        blank == [x |-> sb.display_line, y |-> sb.display_start,
                  text |-> [i \in 1..sb.display_width |-> " "]]
    IN  IF line = "panic" THEN [res |-> "panic", out |-> <<blank>>]
        ELSE [res |-> "Ok",
              out |-> <<blank, [x |-> range.display_start, y |-> sb.display_line,
                                text |-> line]>>]

\* -------------------------------------------------------------- Editor

TAB_WIDTH == 4

\* statusbar::HORIZONTAL_PADDING
STATUS_HORIZONTAL_PADDING == 2

\* "Hello World"
HelloWorld == <<"H", "e", "l", "l", "o", " ", "W", "o", "r", "l", "d">>

\* enum BufferLoadConfig; readable tells whether fs::read_to_string succeeds
BufferLoadConfig(kind, text, readable) ==
    [kind |-> kind, text |-> text, readable |-> readable]

Empty == BufferLoadConfig("Empty", <<>>, TRUE)

\* impl fmt::Write for EditArea : the characters go to the buffer at the
\* caret, the scroll offset follows the caret, the area is marked dirty
edit_area_write_str(ls, c, area, off, s) ==
    TheOne({IF w.res # "Ok"
            THEN [res |-> "Err", lines |-> ls, caret |-> c, offset |-> off]
            ELSE TheOne({[res |-> u.res, lines |-> w.lines, caret |-> w.caret,
                          offset |-> u.offset]
                         : u \in {update_display_offset(w.lines, w.caret, area, off)}})
            : w \in {write_str(ls, c, s)}})

\* Buffer::new
Buffer_new == [lines |-> ensure_current_line(<<>>, Location(0, 0)),
               caret |-> Location(0, 0)]

\* one match of Editor::build over a BufferLoadConfig, on a new Buffer
\* ("Err": load returned the error, "panic": write!(..).unwrap() panicked)
build_buffer(config) ==
    CASE config.kind = "Empty" ->
           [res |-> "Ok", lines |-> Buffer_new.lines, caret |-> Buffer_new.caret]
      [] config.kind = "File" ->
           IF config.readable
           THEN TheOne({[res |-> "Ok", lines |-> r.lines, caret |-> r.caret]
                        : r \in {load(Buffer_new.lines, Buffer_new.caret,
                                      Encode(config.text))}})
           ELSE TheOne({[res |-> "Err", lines |-> r.lines, caret |-> r.caret]
                        : r \in {load_failed(Buffer_new.lines, Buffer_new.caret)}})
      [] config.kind = "String" ->
           TheOne({[res |-> IF r.res = "Ok" THEN "Ok" ELSE "panic",
                    lines |-> r.lines, caret |-> r.caret]
                   : r \in {write_str(Buffer_new.lines, Buffer_new.caret, config.text)}})

\* Editor::build before update_area_configuration: the status bar, the state
\* and the two buffers
build(welcome_config, edit_text_config) ==
    LET welcome == build_buffer(welcome_config)
        buffer == build_buffer(edit_text_config)
    IN  [res |-> IF welcome.res # "Ok" THEN welcome.res ELSE buffer.res,
         status_bar |-> set_packing(set_content(StatusBar_new, HelloWorld),
                                    Packing("Left", STATUS_HORIZONTAL_PADDING,
                                            STATUS_HORIZONTAL_PADDING)),
         state |-> IF welcome_config.kind = "Empty" THEN "Editing" ELSE "Welcoming",
         welcome_buffer |-> welcome.lines,
         lines |-> buffer.lines,
         caret |-> buffer.caret]

\* Editor::check_need_printing
check_need_printing(np, sb) == np \/ sb.need_printing

\* StatusBar::unset_need_printing
status_bar_unset_need_printing(sb) == [sb EXCEPT !.need_printing = FALSE]

\* handle_event whose Welcoming test comes before the match on the key
key_press_state_welcoming_first(st, key) ==
    IF st = "Welcoming" THEN "Editing"
    ELSE IF key = "CtrlQ" THEN "Exiting"
    ELSE st

\* Editor::handle_event, the state after a key press that does not panic
key_press_state(st, key) ==
    IF key = "CtrlQ" THEN "Exiting"
    ELSE IF st = "Welcoming" THEN "Editing"
    ELSE st

\* the repaint match returning the BufferSizeExceeds error to run
paint_fails_on_size(st, wb, ls, area, off, sb) ==
    IF st = "Welcoming"
    THEN TheOne({[res |-> IF r.res = "Ok" THEN "Ok" ELSE "Err", out |-> r.out]
                 : r \in {print_welcome_to(wb, area)}})
    ELSE TheOne({IF b.res = "panic" THEN [res |-> "panic", out |-> b.out]
                 ELSE TheOne({[res |-> e.res, out |-> b.out \o e.out]
                              : e \in {print_to(ls, area, off)}})
                 : b \in {status_bar_print_to(sb)}})

\* the match of Editor::run over the state: what is painted ("skipped" when
\* BufferSizeExceeds is ignored, "Err" when the match returns an error)
paint(st, wb, ls, area, off, sb) ==
    IF st = "Welcoming"
    THEN TheOne({[res |-> IF r.res = "Ok" THEN "Ok" ELSE "skipped", out |-> r.out]
                 : r \in {print_welcome_to(wb, area)}})
    ELSE TheOne({IF b.res = "panic" THEN [res |-> "panic", out |-> b.out]
                 ELSE TheOne({[res |-> e.res, out |-> b.out \o e.out]
                              : e \in {print_to(ls, area, off)}})
                 : b \in {status_bar_print_to(sb)}})

\* ------------------------------------------------------ inputs, history

RECURSIVE SeqsUpTo(_, _)
SeqsUpTo(S, n) ==
    IF n = 0 THEN {<<>>}
    ELSE LET shorter == SeqsUpTo(S, n - 1)
         IN  shorter \cup {Append(s, c) : s \in {t \in shorter : Len(t) = n - 1}, c \in S}

LoadTexts == SeqsUpTo(Alphabet, MaxTextLen)

ShortTexts == SeqsUpTo(Alphabet, MaxBufBytes)

WriteTexts == SeqsUpTo(Alphabet, MaxWriteLen)

SeekLocations == {Location(x, y) : x \in 0..MaxSeek, y \in 0..MaxSeek}

total_bytes(ls) == Len(join(ls, <<"LF">>))

\* The history record: the operation, its inputs (text, loc, cmd), the buffer
\* before a write (lines0, caret0) and what the operation returned (res, out,
\* cursor, changed).
BlankRecord ==
    [op |-> "new", text |-> <<>>, loc |-> NoLoc, cmd |-> "None",
     lines0 |-> <<>>, caret0 |-> NoLoc,
     res |-> "Ok", out |-> <<>>, cursor |-> NoLoc, changed |-> FALSE]

Record(op, text, loc, lines0, caret0, res, out) ==
    [BlankRecord EXCEPT !.op = op, !.text = text, !.loc = loc, !.lines0 = lines0,
                        !.caret0 = caret0, !.res = res, !.out = out]

EditRecord(op, cmd, loc, res, cursor, changed) ==
    [BlankRecord EXCEPT !.op = op, !.cmd = cmd, !.loc = loc,
                        !.res = res, !.cursor = cursor, !.changed = changed]

\* Texts edited in the viewport: every short text, a tall one and a wide one.
TallText == [i \in 1..(2 * TallLines - 1) |-> IF i % 2 = 1 THEN "a" ELSE "LF"]

WideText == [i \in 1..WideCols |-> "a"]

EditAlphabet == {"a", " ", "E", "LF"}

\* A text of 2 * VERTICAL_PADDING lines: as tall as the smallest padded area.
MidText == [i \in 1..(4 * VERTICAL_PADDING - 1) |-> IF i % 2 = 1 THEN "a" ELSE "LF"]

EditTexts == SeqsUpTo(EditAlphabet, MaxEditLen) \cup {TallText, MidText, WideText}

\* Display sizes: the empty area of EditArea::new, areas too small for the
\* paddings, and areas at and above the padding thresholds.
Areas == {Size(0, 0), Size(1, 1), Size(1, 2 * VERTICAL_PADDING),
          Size(2 * HORIZONTAL_PADDING, 2),
          Size(2 * HORIZONTAL_PADDING, 2 * VERTICAL_PADDING),
          Size(2 * HORIZONTAL_PADDING + 1, 2 * VERTICAL_PADDING + 1)}

\* ---------------------------------------------------------------- Init

\* EditArea::new, Buffer::new
\* struct BufferReader { buffer, caret }.  origin is the caret the reader was
\* created with; run holds the characters returned so far while every call
\* since get_reader was next (dir "next") or every call was prev (dir "prev");
\* ended tells that one of these calls returned None.
Reader(active, c, origin, dir, run, ended) ==
    [active |-> active, caret |-> c, origin |-> origin, dir |-> dir,
     run |-> run, ended |-> ended]

\* No reader is borrowed.
NoReader == Reader(FALSE, NoLoc, NoLoc, "none", <<>>, FALSE)

\* The program before Editor::build has filled it: Buffer::new, EditArea::new,
\* StatusBar::new, State::Welcoming.
InitProgram ==
    /\ status_bar = StatusBar_new
    /\ state = "Welcoming"
    /\ pc = "build"
    /\ caret = Location(0, 0)
    /\ lines = ensure_current_line(<<>>, Location(0, 0))
    /\ display_area = Size(0, 0)
    /\ buffer_display_offset = Location(0, 0)
    /\ need_printing = FALSE
    /\ welcome_buffer = ensure_current_line(<<>>, Location(0, 0))
    /\ aborted = FALSE
    /\ reader = NoReader
    /\ last = BlankRecord

\* No operation of the buffer, the edit area or the status bar depends on
\* debug_assertions: the release build is enough for them.
Init ==
    /\ windows \in BOOLEAN
    /\ debug_assertions = FALSE
    /\ InitProgram

\* A panic unwinds and drops the Editor with its EditArea and Buffers: the
\* process is over, only the record of the panicking call remains.
Terminate(rec) ==
    /\ aborted' = TRUE
    /\ lines' = <<>>
    /\ caret' = NoLoc
    /\ display_area' = Size(0, 0)
    /\ buffer_display_offset' = NoLoc
    /\ need_printing' = FALSE
    /\ welcome_buffer' = <<>>
    /\ status_bar' = StatusBar_new
    /\ state' = state
    /\ pc' = "aborted"
    /\ reader' = NoReader
    /\ last' = rec
    /\ UNCHANGED <<windows, debug_assertions>>

\* ------------------------------------------------------ Buffer actions

\* Buffer::load(file) where the file holds the text cs
Load(cs) ==
    /\ ~aborted
    /\ LET s == Encode(cs)
           r == load(lines, caret, s)
       IN  /\ lines' = r.lines
           /\ caret' = r.caret
           /\ last' = Record("load", s, NoLoc, <<>>, NoLoc, "Ok", <<>>)
    /\ UNCHANGED <<windows, debug_assertions, status_bar, state, pc, welcome_buffer, reader, display_area, buffer_display_offset, need_printing, aborted>>

\* Buffer::load(file) where fs::read_to_string fails: clear() has run, `?` returns
LoadFail ==
    /\ ~aborted
    /\ lines' = load_failed(lines, caret).lines
    /\ caret' = load_failed(lines, caret).caret
    /\ last' = Record("load", <<>>, NoLoc, <<>>, NoLoc, "IOError", <<>>)
    /\ UNCHANGED <<windows, debug_assertions, status_bar, state, pc, welcome_buffer, reader, display_area, buffer_display_offset, need_printing, aborted>>

\* Buffer::write_str(s)
Write(cs) ==
    /\ ~aborted
    /\ total_bytes(lines) <= MaxBufBytes
    /\ \E r \in {write_str(lines, caret, cs)} :
         LET rec == Record("write", cs, NoLoc, lines, caret, r.res, <<>>)
         IN  IF r.res = "panic" THEN Terminate(rec)
           ELSE /\ lines' = r.lines
                /\ caret' = r.caret
                /\ last' = rec
                /\ UNCHANGED <<windows, debug_assertions, status_bar, state, pc, welcome_buffer, reader, display_area, buffer_display_offset,
                               need_printing, aborted>>

\* Buffer::seek_unchecked(caret_pos)
SeekUnchecked(loc) ==
    /\ ~aborted
    /\ caret' = loc
    /\ last' = Record("seek", <<>>, loc, <<>>, NoLoc, "Ok", <<>>)
    /\ UNCHANGED <<windows, debug_assertions, status_bar, state, pc, welcome_buffer, reader, lines, display_area, buffer_display_offset,
                   need_printing, aborted>>

\* Buffer::check_self_caret : check_caret(self.caret)
CheckSelfCaret ==
    /\ ~aborted
    /\ last' = Record("check", <<>>, caret, <<>>, NoLoc, check_caret(lines, caret), <<>>)
    /\ UNCHANGED <<windows, debug_assertions, status_bar, state, pc, welcome_buffer, reader, lines, caret, display_area, buffer_display_offset,
                   need_printing, aborted>>

\* Buffer::save(path); text is the loaded text when save directly follows a load
Save ==
    /\ ~aborted
    /\ last' = Record("save",
                      IF last.op = "load" /\ last.res = "Ok" THEN last.text ELSE <<>>,
                      NoLoc, <<>>, NoLoc,
                      IF last.op = "load" /\ last.res = "Ok" THEN "AfterLoad" ELSE "Ok",
                      save_text(lines))
    /\ UNCHANGED <<windows, debug_assertions, status_bar, state, pc, welcome_buffer, reader, lines, caret, display_area, buffer_display_offset,
                   need_printing, aborted>>

\* Buffer::new followed by any sequence of load, write_str, seek_unchecked and
\* check_caret calls.
NextBuffer ==
    \/ \E cs \in ShortTexts : Load(cs)
    \/ LoadFail
    \/ \E cs \in WriteTexts : Write(cs)
    \/ \E loc \in SeekLocations : SeekUnchecked(loc)
    \/ CheckSelfCaret

SpecBuffer == Init /\ [][NextBuffer]_vars

\* Buffer::new followed by any sequence of load and save calls.
NextLoad ==
    \/ \E cs \in LoadTexts : Load(cs)
    \/ LoadFail
    \/ Save

SpecLoad == Init /\ [][NextLoad]_vars

\* ---------------------------------------------------- EditArea actions

\* Editor::build, BufferLoadConfig::File : get_buffer_mut().load(path)
BuildFromFile(cs) == last.op = "new" /\ Load(cs)

\* Editor::build, BufferLoadConfig::String : write!(buffer, "{}", string)
BuildFromString(cs) ==
    /\ last.op = "new"
    /\ ~aborted
    /\ \E r \in {write_str(lines, caret, cs)} :
         LET rec == Record("write", cs, NoLoc, lines, caret, r.res, <<>>)
         IN  IF r.res # "Ok" THEN Terminate(rec)
           ELSE /\ lines' = r.lines
                /\ caret' = r.caret
                /\ last' = rec
                /\ UNCHANGED <<windows, debug_assertions, status_bar, state, pc, welcome_buffer, reader, display_area, buffer_display_offset,
                               need_printing, aborted>>

\* EditArea::configure_area
ConfigureArea(new_area) ==
    /\ ~aborted
    /\ display_area' = new_area
    /\ need_printing' = TRUE
    /\ last' = [BlankRecord EXCEPT !.op = "configure_area"]
    /\ UNCHANGED <<windows, debug_assertions, status_bar, state, pc, welcome_buffer, reader, lines, caret, buffer_display_offset, aborted>>

\* EditArea::unset_need_printing
UnsetNeedPrinting ==
    /\ ~aborted
    /\ need_printing' = FALSE
    /\ last' = [BlankRecord EXCEPT !.op = "unset_need_printing"]
    /\ UNCHANGED <<windows, debug_assertions, status_bar, state, pc, welcome_buffer, reader, lines, caret, display_area, buffer_display_offset, aborted>>

\* EditArea::update_display_offset called on its own
UpdateDisplayOffset ==
    /\ ~aborted
    /\ \E u \in {update_display_offset(lines, caret, display_area,
                                        buffer_display_offset)} :
       LET rec == EditRecord("update_display_offset", "None", NoLoc, u.res,
                             NoLoc, u.changed)
       IN  IF u.res = "panic" THEN Terminate(rec)
           ELSE /\ buffer_display_offset' = u.offset
                /\ last' = rec
                /\ UNCHANGED <<windows, debug_assertions, status_bar, state, pc, welcome_buffer, reader, lines, caret, display_area, need_printing,
                               aborted>>

\* EditArea::move_caret_to(caret)
MoveCaretTo(loc) ==
    /\ ~aborted
    /\ \E r \in {move_caret_to(lines, caret, display_area, buffer_display_offset,
                                need_printing, loc)} :
       LET rec == EditRecord("move_caret_to", "None", loc, r.res, r.cursor,
                             r.offset # buffer_display_offset)
       IN  IF r.res = "panic" THEN Terminate(rec)
           ELSE /\ caret' = r.caret
                /\ buffer_display_offset' = r.offset
                /\ need_printing' = r.np
                /\ last' = rec
                /\ UNCHANGED <<windows, debug_assertions, status_bar, state, pc, welcome_buffer, reader, lines, display_area, aborted>>

\* EditArea::move_caret(caret_move)
MoveCaret(caret_move) ==
    /\ ~aborted
    /\ \E r \in {move_caret(lines, caret, display_area, buffer_display_offset,
                             need_printing, caret_move)} :
       LET rec == EditRecord("move_caret", caret_move, NoLoc, r.res, r.cursor,
                             r.offset # buffer_display_offset)
       IN  IF r.res = "panic" THEN Terminate(rec)
           ELSE /\ caret' = r.caret
                /\ buffer_display_offset' = r.offset
                /\ need_printing' = r.np
                /\ last' = rec
                /\ UNCHANGED <<windows, debug_assertions, status_bar, state, pc, welcome_buffer, reader, lines, display_area, aborted>>

\* EditArea::new, the buffer filled once by Editor::build, then any sequence of
\* caret moves, direct seeks, area reconfigurations and repaints.
Next ==
    \/ \E cs \in EditTexts : BuildFromFile(cs)
    \/ \E cs \in EditTexts : BuildFromString(cs)
    \/ \E a \in Areas : ConfigureArea(a)
    \/ UnsetNeedPrinting
    \/ UpdateDisplayOffset
    \/ \E loc \in SeekLocations : MoveCaretTo(loc)
    \/ \E m \in CaretMove : MoveCaret(m)

\* No operation of the viewport reads LINE_SEP: one build target is enough.
InitEdit == Init /\ windows = FALSE

Spec == InitEdit /\ [][Next]_vars

\* ------------------------------------------------- BufferReader actions

ReadAlphabet == {"a", "E", "LF"}

ReadTexts == SeqsUpTo(ReadAlphabet, MaxReadLen)

\* Buffer::load on the new buffer, as in tests::buffer_reader_next
ReaderLoad(cs) == last.op = "new" /\ Load(cs)

\* Buffer::seek_unchecked before the reader borrows the buffer
ReaderSeek(loc) == ~reader.active /\ SeekUnchecked(loc)

\* Buffer::get_reader : check_self_caret()?, then BufferReader::new
GetReader ==
    /\ ~aborted
    /\ ~reader.active
    /\ last.op \in {"load", "seek"}
    /\ reader' = IF check_caret(lines, caret) = "Ok"
                 THEN Reader(TRUE, caret, caret, "none", <<>>, FALSE)
                 ELSE reader
    /\ last' = Record("get_reader", <<>>, caret, <<>>, NoLoc,
                      check_caret(lines, caret), <<>>)
    /\ UNCHANGED <<windows, debug_assertions, status_bar, state, pc, welcome_buffer, lines, caret, display_area, buffer_display_offset,
                   need_printing, aborted>>

\* The reader after a call in direction d that returned r
ReaderAfter(d, r) ==
    LET same == reader.dir \in {"none", d}
    IN  Reader(TRUE, r.caret, reader.origin,
               IF same THEN d ELSE "mixed",
               IF ~same THEN <<>>
               ELSE IF r.ch = "None" THEN reader.run
               ELSE Append(reader.run, r.ch),
               same /\ (reader.ended \/ r.ch = "None"))

\* BufferReader::next; the record holds the position before the call, the
\* buffer and its caret (the caret the reader was created with)
ReaderNext ==
    /\ ~aborted
    /\ reader.active
    /\ \E r \in {reader_next(lines, reader.caret)} :
         LET rec == Record("next", <<>>, reader.caret, lines, caret,
                           IF r.res = "panic" THEN "panic" ELSE r.ch, <<>>)
         IN  IF r.res = "panic" THEN Terminate(rec)
             ELSE /\ reader' = ReaderAfter("next", r)
                  /\ last' = rec
                  /\ UNCHANGED <<windows, debug_assertions, status_bar, state, pc, welcome_buffer, lines, caret, display_area,
                                 buffer_display_offset, need_printing, aborted>>

\* BufferReader::prev
ReaderPrev ==
    /\ ~aborted
    /\ reader.active
    /\ \E r \in {reader_prev(lines, reader.caret)} :
         LET rec == Record("prev", <<>>, reader.caret, lines, caret,
                           IF r.res = "panic" THEN "panic" ELSE r.ch, <<>>)
         IN  IF r.res = "panic" THEN Terminate(rec)
             ELSE /\ reader' = ReaderAfter("prev", r)
                  /\ last' = rec
                  /\ UNCHANGED <<windows, debug_assertions, status_bar, state, pc, welcome_buffer, lines, caret, display_area,
                                 buffer_display_offset, need_printing, aborted>>

\* BufferReader::peek (&self: the reader is not changed)
ReaderPeek ==
    /\ ~aborted
    /\ reader.active
    /\ \E r \in {reader_peek(lines, reader.caret)} :
         LET rec == Record("peek", <<>>, reader.caret, lines, caret,
                           IF r.res = "panic" THEN "panic" ELSE r.ch, <<>>)
         IN  IF r.res = "panic" THEN Terminate(rec)
             ELSE /\ last' = rec
                  /\ UNCHANGED <<windows, debug_assertions, status_bar, state, pc, welcome_buffer, reader, lines, caret, display_area,
                                 buffer_display_offset, need_printing, aborted>>

\* The characters a scan predicate holds of: char::is_whitespace or its negation
ScanSet(p) == IF p = "blank" THEN Blank ELSE NotBlank

\* The reader after a scan that ended at position c: the run of next() or
\* prev() calls since get_reader is broken.
ReaderAt(c) == Reader(TRUE, c, reader.origin, "mixed", <<>>, FALSE)

\* BufferReader::skip_until(f), f one of the two predicates the callers pass
ReaderSkipUntil(p) ==
    /\ ~aborted
    /\ reader.active
    /\ \E r \in {skip_until(lines, reader.caret, ScanSet(p))} :
         LET rec == [Record("skip_until", <<>>, reader.caret, lines, caret,
                            r.res, <<>>) EXCEPT !.cmd = p]
         IN  IF r.res = "panic" THEN Terminate(rec)
             ELSE /\ reader' = ReaderAt(r.caret)
                  /\ last' = rec
                  /\ UNCHANGED <<windows, debug_assertions, status_bar, state, pc, welcome_buffer, lines, caret, display_area,
                                 buffer_display_offset, need_printing, aborted>>

\* BufferReader::back_until(f)
ReaderBackUntil(p) ==
    /\ ~aborted
    /\ reader.active
    /\ \E r \in {back_until(lines, reader.caret, ScanSet(p))} :
         LET rec == [Record("back_until", <<>>, reader.caret, lines, caret,
                            r.res, <<>>) EXCEPT !.cmd = p]
         IN  IF r.res = "panic" THEN Terminate(rec)
             ELSE /\ reader' = ReaderAt(r.caret)
                  /\ last' = rec
                  /\ UNCHANGED <<windows, debug_assertions, status_bar, state, pc, welcome_buffer, lines, caret, display_area,
                                 buffer_display_offset, need_printing, aborted>>

\* Buffer::new, load, seeks, get_reader, then any walk of the reader.
NextReader ==
    \/ \E cs \in ReadTexts : ReaderLoad(cs)
    \/ \E loc \in SeekLocations : ReaderSeek(loc)
    \/ GetReader
    \/ ReaderNext
    \/ ReaderPrev
    \/ ReaderPeek
    \/ \E p \in {"blank", "not_blank"} : ReaderSkipUntil(p)
    \/ \E p \in {"blank", "not_blank"} : ReaderBackUntil(p)

SpecReader == InitEdit /\ [][NextReader]_vars

\* -------------------------------------------------- caret command actions

\* The line "foo bar  baz": three words, one blank and two blanks between them.
FooBarBaz == <<"a", "a", "a", " ", "a", "a", "a", " ", " ", "a", "a", "a">>

MoveTexts == SeqsUpTo(EditAlphabet, MaxMoveLen) \cup {FooBarBaz}

\* Editor::build, BufferLoadConfig::File, on the texts the caret commands run on
MoveLoad(cs) == last.op = "new" /\ Load(cs)

\* EditArea::new, the buffer loaded once, then any sequence of caret commands.
NextMove ==
    \/ \E cs \in MoveTexts : MoveLoad(cs)
    \/ \E m \in CaretMove : MoveCaret(m)

SpecMove == InitEdit /\ [][NextMove]_vars

\* ------------------------------------------------------ painting actions

PrintTexts == SeqsUpTo(EditAlphabet, MaxPrintLen)

\* Display sizes for painting: narrower and wider than the loaded lines.
PrintAreas == {Size(w, h) : w \in {1, 2, MaxPrintLen + 1}, h \in {1, 2}}

\* Editor::build, BufferLoadConfig::File, on the texts that are painted
PrintLoad(cs) == last.op = "new" /\ Load(cs)

\* EditArea::print_to
PrintTo ==
    /\ ~aborted
    /\ \E r \in {print_to(lines, display_area, buffer_display_offset)} :
       LET rec == Record("print_to", <<>>, NoLoc, <<>>, NoLoc, r.res, r.out)
       IN  IF r.res = "panic" THEN Terminate(rec)
           ELSE /\ last' = rec
                /\ UNCHANGED <<windows, debug_assertions, status_bar, state, pc, welcome_buffer, reader, lines, caret,
                               display_area, buffer_display_offset, need_printing,
                               aborted>>

\* EditArea::new, the buffer loaded once, then caret commands, area
\* reconfigurations and repaints of the edit area.
NextPrint ==
    \/ \E cs \in PrintTexts : PrintLoad(cs)
    \/ \E a \in PrintAreas : ConfigureArea(a)
    \/ \E m \in CaretMove : MoveCaret(m)
    \/ PrintTo

SpecPrint == InitEdit /\ [][NextPrint]_vars

\* ---------------------------------------------------- StatusBar actions

StatusContents == SeqsUpTo({"a", "E"}, MaxContentLen)

Packings ==
    {Center} \cup {Packing(k, l, r) : k \in {"Left", "Right"},
                                      l \in 0..MaxPadding, r \in 0..MaxPadding}

\* StatusBar::set_content
StatusSetContent(s) ==
    /\ ~aborted
    /\ status_bar' = set_content(status_bar, Encode(s))
    /\ last' = Record("set_content", Encode(s), NoLoc, <<>>, NoLoc, "Ok", <<>>)
    /\ UNCHANGED <<windows, debug_assertions, state, pc, welcome_buffer, reader,
                   lines, caret, display_area, buffer_display_offset, need_printing,
                   aborted>>

\* StatusBar::set_packing
StatusSetPacking(packing) ==
    /\ ~aborted
    /\ status_bar' = set_packing(status_bar, packing)
    /\ last' = [BlankRecord EXCEPT !.op = "set_packing", !.cmd = packing.kind]
    /\ UNCHANGED <<windows, debug_assertions, state, pc, welcome_buffer, reader,
                   lines, caret, display_area, buffer_display_offset, need_printing,
                   aborted>>

\* StatusBar::configure_area(Area::new(x, y, w, 1))
StatusConfigureArea(x, y, w) ==
    /\ ~aborted
    /\ status_bar' = status_bar_configure_area(status_bar, x, y, w)
    /\ last' = [BlankRecord EXCEPT !.op = "status_bar_configure_area"]
    /\ UNCHANGED <<windows, debug_assertions, state, pc, welcome_buffer, reader,
                   lines, caret, display_area, buffer_display_offset, need_printing,
                   aborted>>

\* StatusBar::print_to
StatusPrintTo ==
    /\ ~aborted
    /\ \E r \in {status_bar_print_to(status_bar)} :
       LET rec == Record("status_bar_print_to", <<>>, NoLoc, <<>>, NoLoc, r.res, r.out)
       IN  IF r.res = "panic" THEN Terminate(rec)
           ELSE /\ last' = rec
                /\ UNCHANGED <<windows, debug_assertions, status_bar, state, pc,
                               welcome_buffer, reader, lines, caret, display_area,
                               buffer_display_offset, need_printing, aborted>>

\* StatusBar::new, then any sequence of content, packing and area changes and
\* paints of the bar.
NextStatus ==
    \/ \E s \in StatusContents : StatusSetContent(s)
    \/ \E p \in Packings : StatusSetPacking(p)
    \/ \E x \in 0..1, y \in 0..1, w \in 0..MaxBarWidth : StatusConfigureArea(x, y, w)
    \/ StatusPrintTo

SpecStatus == InitEdit /\ [][NextStatus]_vars

\* ------------------------------------------------- welcome screen actions

\* The welcome text of the fit example: 5 lines, the longest 40 columns wide.
WelcomeExample ==
    join([i \in 1..5 |-> [j \in 1..(IF i = 3 THEN 40 ELSE 1) |-> "a"]], <<"LF">>)

WelcomeTexts == SeqsUpTo(EditAlphabet, MaxWelcomeLen) \cup {WelcomeExample}

\* Display sizes around the sizes of the welcome texts, and the two areas of
\* the fit example.
WelcomeAreas ==
    {Size(w, h) : w \in 0..MaxAreaSide, h \in 0..MaxAreaSide}
        \cup {Size(40, 5), Size(41, 6)}

\* Editor::build, welcome_config File : get_welcome_buffer_mut().load(path)
BuildWelcome(cs) ==
    /\ ~aborted
    /\ last.op = "new"
    /\ welcome_buffer' = load(welcome_buffer, Location(0, 0), Encode(cs)).lines
    /\ last' = Record("load_welcome", Encode(cs), NoLoc, <<>>, NoLoc, "Ok", <<>>)
    /\ UNCHANGED <<windows, debug_assertions, status_bar, state, pc, reader, lines,
                   caret, display_area, buffer_display_offset, need_printing,
                   aborted>>

\* EditArea::print_welcome_to; cmd records what the fit check's
\* display_area.size().partial_cmp(&welcome_buffer.size()) returned
PrintWelcomeTo ==
    /\ ~aborted
    /\ \E r \in {print_welcome_to(welcome_buffer, display_area)} :
         last' = [Record("print_welcome_to", <<>>, NoLoc, <<>>, NoLoc, r.res, r.out)
                    EXCEPT !.cmd = partial_cmp(display_area, size(welcome_buffer))]
    /\ UNCHANGED <<windows, debug_assertions, status_bar, state, pc, welcome_buffer, reader, lines, caret, display_area,
                   buffer_display_offset, need_printing, aborted>>

\* EditArea::new, the welcome buffer loaded once, then area reconfigurations
\* and paints of the welcome screen.
NextWelcome ==
    \/ \E cs \in WelcomeTexts : BuildWelcome(cs)
    \/ \E a \in WelcomeAreas : ConfigureArea(a)
    \/ PrintWelcomeTo

SpecWelcome == InitEdit /\ [][NextWelcome]_vars

\* ------------------------------------------------------- Editor actions

EditorTexts == {<<"E">>, <<"a", "LF", "a">>}

\* config.edit_text_config
LoadConfigs ==
    {Empty, BufferLoadConfig("File", <<>>, FALSE)}
    \cup {BufferLoadConfig(k, cs, TRUE) : k \in {"File", "String"}, cs \in EditorTexts}

\* config.welcome_config
WelcomeConfigs ==
    {Empty, BufferLoadConfig("File", <<>>, FALSE),
     BufferLoadConfig("File", <<"a">>, TRUE), BufferLoadConfig("String", <<"a">>, TRUE)}

\* terminal.size(), both sides at least 1: too small for the welcome screen,
\* and large enough
TerminalSizes == {Size(1, 1), Size(3, 3)}

\* Events read by terminal.read_event_blocking.  A key is named by what
\* handle_event makes of it: Ctrl+Q, Ctrl+C, a key CaretMove::try_from maps to
\* a command, a plain character, Ctrl+S, Enter, Tab, any other key.
Keys ==
    {[key |-> k, arg |-> "None"] : k \in {"CtrlQ", "CtrlC", "CtrlS", "Enter", "Tab", "Other"}}
    \cup {[key |-> "Move", arg |-> m] : m \in CaretMove}
    \cup {[key |-> "Char", arg |-> ch] : ch \in {"a", "E"}}

Events ==
    {[kind |-> "Press", key |-> e.key, arg |-> e.arg] : e \in Keys}
    \cup {[kind |-> "Release", key |-> k, arg |-> "None"] : k \in {"CtrlQ", "Other"}}
    \cup {[kind |-> "Resize", key |-> "None", arg |-> sz] : sz \in TerminalSizes}
    \cup {[kind |-> "Other", key |-> "None", arg |-> "None"]}

\* the characters a key press writes to the edit area
typed(evt) ==
    CASE evt.key = "Char" -> <<evt.arg>>
      [] evt.key = "Enter" -> <<"LF">>
      [] evt.key = "Tab" -> [i \in 1..TAB_WIDTH |-> " "]
      [] OTHER -> <<>>

\* Editor::update_area_configuration with terminal.size() = sz
update_area_configuration(sz) ==
    /\ display_area' = Size(sz.width - 1, sz.height - 1)
    /\ need_printing' = TRUE
    /\ status_bar' = status_bar_configure_area(status_bar, 0, sz.height - 1, sz.width - 1)

\* Editor::build.  io tells whether the terminal calls succeed.
EditorBuild(welcome_config, edit_text_config, sz, io) ==
    /\ pc = "build"
    /\ ~aborted
    /\ \E b \in {build(welcome_config, edit_text_config)} :
         LET rec == [Record("build", welcome_config.text, NoLoc, <<>>, NoLoc,
                            IF b.res = "Ok" /\ ~io THEN "Err" ELSE b.res, <<>>)
                       EXCEPT !.cmd = welcome_config.kind]
         IN  IF b.res = "panic" THEN Terminate(rec)
             ELSE IF b.res = "Err" \/ ~io
             THEN /\ pc' = "done"
                  /\ last' = rec
                  /\ UNCHANGED <<windows, debug_assertions, status_bar, state,
                                 welcome_buffer, reader, lines, caret, display_area,
                                 buffer_display_offset, need_printing, aborted>>
             ELSE /\ state' = b.state
                  /\ welcome_buffer' = b.welcome_buffer
                  /\ lines' = b.lines
                  /\ caret' = b.caret
                  /\ display_area' = Size(sz.width - 1, sz.height - 1)
                  /\ need_printing' = TRUE
                  /\ status_bar' = status_bar_configure_area(b.status_bar, 0,
                                                             sz.height - 1, sz.width - 1)
                  /\ pc' = "top"
                  /\ last' = rec
                  /\ UNCHANGED <<windows, debug_assertions, reader,
                                 buffer_display_offset, aborted>>

\* Editor::run, the loop test failing: state = Exiting, run returns Ok(())
RunReturn ==
    /\ pc = "top"
    /\ ~aborted
    /\ state = "Exiting"
    /\ pc' = "done"
    /\ last' = [BlankRecord EXCEPT !.op = "return"]
    /\ UNCHANGED <<windows, debug_assertions, status_bar, state, welcome_buffer,
                   reader, lines, caret, display_area, buffer_display_offset,
                   need_printing, aborted>>

\* Editor::run, one iteration up to handle_event: the repaint step when
\* check_need_printing() holds, then terminal.flush().  io names the terminal
\* call that fails, if any; the `?` then returns the error from run.
RunRepaint(io) ==
    /\ pc = "top"
    /\ ~aborted
    /\ state # "Exiting"
    /\ \E dirty \in {check_need_printing(need_printing, status_bar)} :
       /\ io = "clear_screen" => dirty
       /\ IF ~dirty
          THEN /\ pc' = IF io = "flush" THEN "done" ELSE "event"
               /\ last' = Record("no_repaint", <<>>, NoLoc, <<>>, NoLoc,
                                 IF io = "flush" THEN "IoErr" ELSE "Ok", <<>>)
               /\ UNCHANGED <<windows, debug_assertions, status_bar, state,
                              welcome_buffer, reader, lines, caret, display_area,
                              buffer_display_offset, need_printing, aborted>>
          ELSE IF io = "clear_screen"
          THEN /\ pc' = "done"
               /\ last' = Record("repaint", <<>>, NoLoc, <<>>, NoLoc, "IoErr", <<>>)
               /\ UNCHANGED <<windows, debug_assertions, status_bar, state,
                              welcome_buffer, reader, lines, caret, display_area,
                              buffer_display_offset, need_printing, aborted>>
          ELSE \E r \in {paint(state, welcome_buffer, lines, display_area,
                                buffer_display_offset, status_bar)} :
               LET rec == [Record("repaint", <<>>, NoLoc, <<>>, NoLoc,
                                  IF r.res \in {"Ok", "skipped"} /\ io = "flush"
                                  THEN "IoErr" ELSE r.res, r.out)
                             EXCEPT !.cmd = state]
               IN  IF r.res = "panic" THEN Terminate(rec)
                   ELSE IF r.res = "Err"
                   THEN /\ pc' = "done"
                        /\ last' = rec
                        /\ UNCHANGED <<windows, debug_assertions, status_bar, state,
                                       welcome_buffer, reader, lines, caret,
                                       display_area, buffer_display_offset,
                                       need_printing, aborted>>
                   ELSE /\ need_printing' = FALSE
                        /\ status_bar' = status_bar_unset_need_printing(status_bar)
                        /\ pc' = IF io = "flush" THEN "done" ELSE "event"
                        /\ last' = rec
                        /\ UNCHANGED <<windows, debug_assertions, state, welcome_buffer,
                                       reader, lines, caret, display_area,
                                       buffer_display_offset, aborted>>

\* Editor::handle_event with evt read from the terminal.  io tells whether the
\* terminal call of the handler (move_cursor_to, size) succeeds.
HandleEvent(evt, io) ==
    /\ pc = "event"
    /\ ~aborted
    /\ LET rec == [BlankRecord EXCEPT !.op = "handle_event", !.cmd = evt.kind,
                                      !.text = <<evt.key>>]
           Stay == /\ pc' = "top"
                   /\ last' = rec
                   /\ UNCHANGED <<windows, debug_assertions, status_bar, state,
                                  welcome_buffer, reader, lines, caret, display_area,
                                  buffer_display_offset, need_printing, aborted>>
       IN
       CASE evt.kind = "Resize" ->
              IF io
              THEN /\ update_area_configuration(evt.arg)
                   /\ pc' = "top"
                   /\ last' = rec
                   /\ UNCHANGED <<windows, debug_assertions, state, welcome_buffer,
                                  reader, lines, caret, buffer_display_offset, aborted>>
              ELSE /\ pc' = "done"
                   /\ last' = [rec EXCEPT !.res = "IoErr"]
                   /\ UNCHANGED <<windows, debug_assertions, status_bar, state,
                                  welcome_buffer, reader, lines, caret, display_area,
                                  buffer_display_offset, need_printing, aborted>>
         [] evt.kind \in {"Release", "Other"} -> io /\ Stay
         [] evt.kind = "Press" /\ evt.key = "CtrlQ" ->
              /\ io
              /\ state' = key_press_state(state, evt.key)
              /\ pc' = "top"
              /\ last' = rec
              /\ UNCHANGED <<windows, debug_assertions, status_bar, welcome_buffer,
                             reader, lines, caret, display_area,
                             buffer_display_offset, need_printing, aborted>>
         [] evt.kind = "Press" /\ evt.key = "CtrlC" /\ debug_assertions ->
              io /\ Terminate([rec EXCEPT !.res = "panic"])
         [] evt.kind = "Press" /\ (evt.key # "CtrlC" \/ ~debug_assertions)
            /\ evt.key # "CtrlQ" /\ state = "Welcoming" ->
              /\ io
              /\ state' = key_press_state(state, evt.key)
              /\ need_printing' = TRUE
              /\ pc' = "top"
              /\ last' = rec
              /\ UNCHANGED <<windows, debug_assertions, status_bar, welcome_buffer,
                             reader, lines, caret, display_area,
                             buffer_display_offset, aborted>>
         [] evt.kind = "Press" /\ evt.key = "Move" /\ state # "Welcoming" ->
              \E r \in {move_caret(lines, caret, display_area, buffer_display_offset,
                                    need_printing, evt.arg)} :
                IF r.res = "panic" THEN io /\ Terminate([rec EXCEPT !.res = "panic"])
                ELSE /\ caret' = r.caret
                     /\ buffer_display_offset' = r.offset
                     /\ need_printing' = r.np
                     /\ pc' = IF io THEN "top" ELSE "done"
                     /\ last' = [rec EXCEPT !.res = IF io THEN "Ok" ELSE "IoErr",
                                           !.cursor = r.cursor]
                     /\ UNCHANGED <<windows, debug_assertions, status_bar, state,
                                    welcome_buffer, reader, lines, display_area, aborted>>
         [] evt.kind = "Press" /\ evt.key \in {"Char", "Enter", "Tab"}
            /\ state # "Welcoming" ->
              /\ io
              /\ Len(display_text(lines)) < MaxTypedBytes
              /\ \E r \in {edit_area_write_str(lines, caret, display_area,
                                                buffer_display_offset, typed(evt))} :
                   IF r.res # "Ok" THEN Terminate([rec EXCEPT !.res = "panic"])
                   ELSE /\ lines' = r.lines
                        /\ caret' = r.caret
                        /\ buffer_display_offset' = r.offset
                        /\ need_printing' = TRUE
                        /\ pc' = "top"
                        /\ last' = rec
                        /\ UNCHANGED <<windows, debug_assertions, status_bar, state,
                                       welcome_buffer, reader, display_area, aborted>>
         [] OTHER -> io /\ Stay

\* Editor::build, then Editor::run: repaint, flush and handle_event in turn
\* until the state is Exiting, a call returns an error or panics.
NextEditor ==
    \/ \E wc \in WelcomeConfigs, ec \in LoadConfigs, sz \in TerminalSizes, io \in BOOLEAN :
         EditorBuild(wc, ec, sz, io)
    \/ \E io \in {"Ok", "clear_screen", "flush"} : RunRepaint(io)
    \/ \E evt \in Events, io \in BOOLEAN : HandleEvent(evt, io)
    \/ RunReturn

\* Both builds: with and without debug assertions.
InitEditor ==
    /\ windows = FALSE
    /\ debug_assertions \in BOOLEAN
    /\ InitProgram

SpecEditor == InitEditor /\ [][NextEditor]_vars

\* ------------------------------------------------- helpers of the claims

RECURSIVE Decode(_)
\* The characters of a UTF-8 byte sequence.
Decode(bs) ==
    IF bs = <<>> THEN <<>>
    ELSE IF Head(bs) = "E1" THEN <<"E">> \o Decode(SubSeq(bs, 3, Len(bs)))
    ELSE <<Head(bs)>> \o Decode(Tail(bs))

CountOf(s, c) == Cardinality({i \in 1..Len(s) : s[i] = c})

\* The caret is valid counting Unicode characters.
ValidByChars(ls, c) == c.y < Len(ls) /\ c.x <= chars_count(ls[c.y + 1])

\* The text of ls (lines joined by newline) with t inserted at character
\* column c.x of line c.y, as characters.
TextWithInsert(ls, c, t) ==
    LET old == Decode(display_text(ls))
        before == Decode(display_text(SubSeq(ls, 1, c.y)))
        k == Len(before) + (IF c.y > 0 THEN 1 ELSE 0) + c.x
    IN  SubSeq(old, 1, k) \o t \o SubSeq(old, k + 1, Len(old))

\* The caret immediately after t inserted at c.
CaretAfterInsert(c, t) ==
    LET nl == {i \in 1..Len(t) : t[i] = "LF"}
    IN  IF nl = {} THEN Location(c.x + Len(t), c.y)
        ELSE LET k == CHOOSE i \in nl : \A j \in nl : j <= i
             IN  Location(Len(t) - k, c.y + Cardinality(nl))

\* Every line separator of the text is the platform separator.
IsNormalized(s) ==
    IF windows
    THEN \A i \in 1..Len(s) :
             /\ s[i] = "LF" => (i > 1 /\ s[i - 1] = "CR")
             /\ s[i] = "CR" => (i < Len(s) /\ s[i + 1] = "LF")
    ELSE \A i \in 1..Len(s) : s[i] # "CR"

RECURSIVE BreakSplit(_, _)
\* The maximal runs of non-separator bytes of s between line breaks, where each
\* of CR LF, CR and LF is one break; cur is the run read so far.
BreakSplit(s, cur) ==
    IF s = <<>> THEN <<cur>>
    ELSE IF Len(s) >= 2 /\ s[1] = "CR" /\ s[2] = "LF"
         THEN <<cur>> \o BreakSplit(SubSeq(s, 3, Len(s)), <<>>)
    ELSE IF s[1] \in {"CR", "LF"}
         THEN <<cur>> \o BreakSplit(Tail(s), <<>>)
    ELSE BreakSplit(Tail(s), Append(cur, s[1]))

\* The buffer text as characters: the lines joined by one newline.
BufferText(ls) == Decode(display_text(ls))

Reverse(q) == [i \in 1..Len(q) |-> q[Len(q) + 1 - i]]

IsPrefix(a, b) == Len(a) <= Len(b) /\ a = SubSeq(b, 1, Len(a))

\* The position after the last character of the last line, as load leaves it
\* (a character column).
EndOfText(ls) == Location(chars_count(ls[Len(ls)]), Len(ls) - 1)

\* The number of characters of the buffer text before position c, for c on a
\* character boundary of an existing line; the text length for a position
\* past the last line.
TextIndex(ls, c) ==
    IF c.y >= Len(ls) THEN Len(BufferText(ls))
    ELSE Len(BufferText(SubSeq(ls, 1, c.y))) + (IF c.y > 0 THEN 1 ELSE 0)
         + chars_count(SubSeq(ls[c.y + 1], 1, c.x))

\* The number of characters of the buffer text before the caret c, c.x a
\* character column.
CharIndex(ls, c) ==
    Len(BufferText(SubSeq(ls, 1, c.y))) + (IF c.y > 0 THEN 1 ELSE 0) + c.x

RECURSIVE LocOfIndex(_, _)
\* The caret (character column, line) with k characters of the text before it.
LocOfIndex(ls, k) ==
    IF Len(ls) <= 1 \/ k <= chars_count(ls[1]) THEN Location(k, 0)
    ELSE LET r == LocOfIndex(Tail(ls), k - chars_count(ls[1]) - 1)
         IN  Location(r.x, r.y + 1)

\* The least and the greatest element of a non-empty set of numbers.
MinOf(S) == CHOOSE i \in S : \A j \in S : i <= j

MaxOf(S) == CHOOSE i \in S : \A j \in S : j <= i

\* NextWord on the text t with k characters before the caret: the number of
\* characters before the first non-blank that follows the first blank at or
\* after the caret, or -1 when there is none.
NextWordIndex(t, k) ==
    LET blanks == {i \in (k + 1)..Len(t) : t[i] \in Blank}
    IN  IF blanks = {} THEN -1
        ELSE LET words == {i \in MinOf(blanks)..Len(t) : t[i] \in NotBlank}
             IN  IF words = {} THEN -1 ELSE MinOf(words) - 1

\* PrevWord on the text t with k characters before the caret: with a
\* non-blank under the caret back to a blank, then to a non-blank, then to a
\* blank; otherwise back to a non-blank, then to a blank.  The number of
\* characters before the position reached, or -1 when a scan finds nothing.
PrevWordIndex(t, k) ==
    LET on_word == k + 1 <= Len(t) /\ t[k + 1] \in NotBlank
        blanks1 == {i \in 1..k : t[i] \in Blank}
        p1 == IF ~on_word THEN k
              ELSE IF blanks1 = {} THEN -1 ELSE MaxOf(blanks1)
        words == {i \in 1..p1 : t[i] \in NotBlank}
        p2 == IF words = {} THEN -1 ELSE MaxOf(words)
        blanks3 == {i \in 1..p2 : t[i] \in Blank}
    IN  IF blanks3 = {} THEN -1 ELSE MaxOf(blanks3)

\* Some scan of move_caret_to_next_word reports EndOfFile.
NextWordScanFails(ls, c) ==
    \/ skip_until(ls, c, Blank).res = "EndOfFile"
    \/ /\ skip_until(ls, c, Blank).res = "Ok"
       /\ skip_until(ls, skip_until(ls, c, Blank).caret, NotBlank).res = "EndOfFile"

\* Some scan of move_caret_to_prev_word reports EndOfFile.
PrevWordScanFails(ls, c) ==
    LET pk == reader_peek(ls, c)
        b0 == IF pk.ch \in NotBlank THEN back_until(ls, c, Blank)
              ELSE [caret |-> c, res |-> "Ok"]
        b1 == back_until(ls, b0.caret, NotBlank)
    IN  /\ pk.res = "Ok"
        /\ \/ b0.res = "EndOfFile"
           \/ b0.res = "Ok" /\ b1.res = "EndOfFile"
           \/ /\ b0.res = "Ok" /\ b1.res = "Ok"
              /\ back_until(ls, b1.caret, Blank).res = "EndOfFile"

\* ---------------------------------------------------------------- claims

\* C1: after every move_caret command among Left, Right, Up, Down, NextWord,
\* PrevWord, LineStart, LineEnd, GlobalStart and GlobalEnd the command has not
\* aborted (the validation inside move_caret_to reported no error to unwrap)
\* and the caret satisfies check_caret, also on lines with multi-byte
\* characters.
C1_MovesKeepCaretValid ==
    (last.op = "move_caret" /\ last.cmd \in ImplementedMoves)
    => /\ ~aborted
       /\ last.res = "Ok"
       /\ check_caret(lines, caret) = "Ok"

\* C2: after every successful move_caret_to on a display area with width >= 1
\* and height >= 1 the caret is inside the visible window:
\* offset.y <= caret.y < offset.y + height and
\* offset.x <= caret.x <= offset.x + width, whatever the display size.
C2_CaretInsideWindow ==
    (/\ last.op = "move_caret_to"
     /\ last.res = "Ok"
     /\ display_area.width >= 1
     /\ display_area.height >= 1)
    => /\ buffer_display_offset.y <= caret.y
       /\ caret.y < buffer_display_offset.y + display_area.height
       /\ buffer_display_offset.x <= caret.x
       /\ caret.x <= buffer_display_offset.x + display_area.width

\* C3: check_caret(x, y) succeeds iff y < line_count and x <= the number of
\* Unicode characters of line y; otherwise it reports CaretOutOfHeight when
\* y >= line_count and CaretOutOfLen when x exceeds the character count.
C3_CheckCaretCountsChars ==
    last.op = "check" =>
        /\ (last.res = "Ok") <=> ValidByChars(lines, last.loc)
        /\ last.loc.y >= Len(lines) => last.res = "CaretOutOfHeight"
        /\ (last.loc.y < Len(lines) /\ ~ValidByChars(lines, last.loc))
               => last.res = "CaretOutOfLen"

\* C4: after Buffer::new and any sequence of load (succeeding or failing),
\* write and seek_unchecked the buffer has at least one line, and a buffer
\* with no content has exactly one empty line.
C4_NeverEmpty ==
    ~aborted =>
        /\ Len(lines) >= 1
        /\ display_text(lines) = <<>> => lines = << <<>> >>

\* C5: with a valid caret (x, y) and a text t of non-control characters and
\* newlines, write(t) succeeds, the buffer text is the old text with t
\* inserted at character column x of line y, the lines before y and after y
\* keep content and order, each newline adds one line, and the caret ends
\* immediately after the inserted text.
C5_WriteInsertsAtCaret ==
    (/\ last.op = "write"
     /\ ValidByChars(last.lines0, last.caret0)
     /\ \A i \in 1..Len(last.text) : last.text[i] # "CR")
    => /\ last.res = "Ok"
       /\ display_text(lines)
              = Encode(TextWithInsert(last.lines0, last.caret0, last.text))
       /\ Len(lines) = Len(last.lines0) + CountOf(last.text, "LF")
       /\ \A i \in 1..last.caret0.y : lines[i] = last.lines0[i]
       /\ \A i \in (last.caret0.y + 2)..Len(last.lines0) :
              lines[i + CountOf(last.text, "LF")] = last.lines0[i]
       /\ caret = CaretAfterInsert(last.caret0, last.text)

\* C6: writing a text (multi-byte characters included) at a valid caret
\* succeeds and leaves the caret on a character boundary, and every Left or
\* Right step after it completes with the caret on a character boundary of
\* its line; no operation aborts.
C6_MultiByteWriteAndStep ==
    /\ (/\ last.op = "write"
        /\ ValidByChars(last.lines0, last.caret0)
        /\ \A i \in 1..Len(last.text) : last.text[i] # "CR")
       => /\ last.res = "Ok"
          /\ ~aborted
          /\ is_char_boundary(lines[caret.y + 1], caret.x)
    /\ (last.op = "move_caret" /\ last.cmd \in {"Left", "Right"})
       => /\ ~aborted
          /\ is_char_boundary(lines[caret.y + 1], caret.x)

\* C7: for a text whose line separators are the platform separator, load
\* followed by save writes exactly that text (nothing added or removed at the
\* end, the empty text stays empty).
C7_LoadSaveRoundTrip ==
    (last.op = "save" /\ last.res = "AfterLoad" /\ IsNormalized(last.text))
    => last.out = last.text

C7_Witness ==
    /\ last.op = "save" /\ last.res = "AfterLoad" /\ IsNormalized(last.text)
    /\ Len(lines) >= 2
    /\ lines[1] # <<>>
    /\ lines[Len(lines)] = <<>>

\* C8: after a successful load the buffer holds only the lines of the loaded
\* text, the caret is at (character count of the last line, line_count - 1)
\* and passes check_caret; an empty text gives one empty line and caret (0,0).
C8_LoadPlacesCaretAtEnd ==
    (last.op = "load" /\ last.res = "Ok")
    => /\ Len(lines) = 1 + CountOf(last.text, "LF")
       /\ Len(display_text(lines)) <= Len(last.text)
       /\ caret = Location(chars_count(lines[Len(lines)]), Len(lines) - 1)
       /\ check_caret(lines, caret) = "Ok"
       /\ ValidByChars(lines, caret)
       /\ last.text = <<>> => (lines = << <<>> >> /\ caret = Location(0, 0))

C8_Witness ==
    /\ last.op = "load" /\ last.res = "Ok"
    /\ Len(lines) >= 2
    /\ chars_count(lines[Len(lines)]) >= 1
    /\ chars_count(lines[Len(lines)]) < Len(lines[Len(lines)])

\* C9: load treats each of CR, LF and CR LF as one line break: the loaded
\* lines are the maximal runs of non-separator characters between breaks, so
\* no line holds a CR or LF and no other character is lost.
C9_LoadBreaksOnCrLfCrlf ==
    (last.op = "load" /\ last.res = "Ok")
    => /\ lines = BreakSplit(last.text, <<>>)
       /\ \A i \in 1..Len(lines) : \A j \in 1..Len(lines[i]) :
              lines[i][j] \notin {"CR", "LF"}

\* C10: write on a buffer whose caret fails check_caret returns an error
\* before any character is processed; lines and caret stay as they were.
C10_WriteRejectsInvalidCaret ==
    (last.op = "write" /\ check_caret(last.lines0, last.caret0) # "Ok")
    => /\ last.res = "Err"
       /\ ~aborted
       /\ lines = last.lines0
       /\ caret = last.caret0

C10_Witness ==
    /\ last.op = "write" /\ last.text # <<>>
    /\ check_caret(last.lines0, last.caret0) = "CaretOutOfLen"
    /\ last.lines0[last.caret0.y + 1] # <<>>

\* C11: two calls of update_display_offset in a row, with no caret, buffer or
\* area change in between: the second call leaves the offset of the first and
\* returns false.
C11_UpdateOffsetIdempotent ==
    [][(last.op = "update_display_offset" /\ last'.op = "update_display_offset")
       => /\ ~aborted'
          /\ buffer_display_offset' = buffer_display_offset
          /\ ~last'.changed]_vars

\* C12: scroll reconciliation runs on every area resize: when the offset was
\* reconciled before configure_area, it is reconciled with the new area and
\* the caret immediately after it (a following update_display_offset reports
\* no change), for every new area of at least one row and one column.
C12_ConfigureAreaReconciles ==
    [][(/\ last'.op = "configure_area"
        /\ display_area'.width >= 1
        /\ display_area'.height >= 1
        /\ ~update_display_offset(lines, caret, display_area,
                                  buffer_display_offset).changed)
       => ~update_display_offset(lines', caret', display_area',
                                 buffer_display_offset').changed]_vars

\* C13: after every update_display_offset (called directly or by a caret move)
\* on a buffer with a valid caret and more lines than the display height,
\* offset.y + height <= line_count: no blank row below the last line.
C13_LastLinePinned ==
    (/\ last.op \in {"update_display_offset", "move_caret_to", "move_caret"}
     /\ last.res = "Ok"
     /\ ~aborted
     /\ check_caret(lines, caret) = "Ok"
     /\ Len(lines) > display_area.height)
    => buffer_display_offset.y + display_area.height <= Len(lines)

\* The display was made taller: the upward branch alone would leave blank rows.
C13_Witness ==
    /\ last.op = "update_display_offset" /\ last.res = "Ok" /\ last.changed
    /\ display_area.height >= 2 * VERTICAL_PADDING
    /\ Len(lines) > display_area.height
    /\ caret.y >= VERTICAL_PADDING
    /\ caret.y - VERTICAL_PADDING + display_area.height > Len(lines)
    /\ buffer_display_offset.y + display_area.height = Len(lines)

\* C14: with a display of height h >= 6 and a buffer of n > h lines, a caret
\* move that ends on the last line n - 1 gives offset.y = n - h (the last line
\* on the bottom row), and a caret move that ends on line 0 gives offset.y = 0.
C14_ScrollToEnds ==
    (/\ last.op \in {"move_caret_to", "move_caret"}
     /\ last.res = "Ok"
     /\ ~aborted
     /\ display_area.height >= 2 * VERTICAL_PADDING
     /\ Len(lines) > display_area.height)
    => /\ caret.y = Len(lines) - 1
              => buffer_display_offset.y = Len(lines) - display_area.height
       /\ caret.y = 0 => buffer_display_offset.y = 0

\* Back to line 0 from a scrolled view.
C14_Witness ==
    /\ last.op = "move_caret" /\ last.cmd = "GlobalStart" /\ last.res = "Ok"
    /\ last.changed
    /\ display_area.height >= 2 * VERTICAL_PADDING
    /\ Len(lines) > display_area.height
    /\ caret.y = 0
    /\ buffer_display_offset.y = 0
    /\ last.cursor.y = 0

\* C15: need_printing is false on a new EditArea; after any caret move
\* (move_caret or move_caret_to) and after any configure_area it is true; and
\* once true it stays true until unset_need_printing is called.
C15_NeedPrintingAfterMove ==
    /\ [](last.op = "new" => ~need_printing)
    /\ []((/\ last.op \in {"move_caret", "move_caret_to", "configure_area"}
           /\ last.res = "Ok"
           /\ ~aborted)
          => need_printing)
    /\ [][(need_printing /\ ~need_printing')
          => (last'.op = "unset_need_printing" \/ aborted')]_vars

\* C16: update_display_offset returns true exactly when the offset after the
\* call differs from the offset before it; a successful caret move sets
\* need_printing exactly in that case and otherwise leaves need_printing, the
\* offset, the area and the buffer lines as they were (only the caret and the
\* returned cursor change).
C16_DirtyIffOffsetChanged ==
    [][/\ (last'.op = "update_display_offset" /\ ~aborted')
          => /\ last'.changed <=> (buffer_display_offset' # buffer_display_offset)
             /\ need_printing' = need_printing
       /\ (/\ last'.op \in {"move_caret_to", "move_caret"}
           /\ last'.res = "Ok"
           /\ ~aborted')
          => /\ last'.changed <=> (buffer_display_offset' # buffer_display_offset)
             /\ need_printing' = (need_printing \/ last'.changed)
             /\ last'.cursor = get_cursor(caret', display_area', buffer_display_offset')
             /\ display_area' = display_area
             /\ lines' = lines]_vars

\* A move inside the window of a clean area: only the cursor changes.
C16_Witness ==
    /\ last.op = "move_caret_to" /\ last.res = "Ok"
    /\ ~last.changed
    /\ ~need_printing
    /\ caret = last.loc
    /\ last.cursor # NoLoc
    /\ display_area.height >= 1

\* C17: a reader created with the caret at (0,0) and advanced with next()
\* yields the buffer text (the characters of each line, one newline between
\* consecutive lines, none after the last), returns None only after the whole
\* text, keeps returning None afterwards, and never aborts.
C17_NextYieldsText ==
    /\ (last.op = "next" /\ last.caret0 = Location(0, 0)) => last.res # "panic"
    /\ (reader.active /\ reader.origin = Location(0, 0) /\ reader.dir = "next")
       => /\ IsPrefix(reader.run, BufferText(lines))
          /\ reader.ended => reader.run = BufferText(lines)
          /\ (reader.ended /\ last.op = "next") => last.res = "None"

\* A second next() after the end of a text of several lines with a two-byte
\* character.
C17_Witness ==
    /\ reader.active /\ reader.origin = Location(0, 0) /\ reader.dir = "next"
    /\ reader.ended
    /\ last.op = "next" /\ last.res = "None"
    /\ last.loc = Location(0, Len(lines))
    /\ Len(lines) >= 2
    /\ \E i \in 1..Len(reader.run) : reader.run[i] = "E"
    /\ reader.run = BufferText(lines)

\* C18: a reader created with the caret at the end of the last line and
\* stepped back with prev() yields the buffer text in reverse (one newline per
\* boundary between consecutive lines), returns None only at (0,0), and never
\* aborts.
C18_PrevYieldsReversedText ==
    /\ (last.op = "prev" /\ last.caret0 = EndOfText(last.lines0))
       => last.res # "panic"
    /\ (reader.active /\ reader.origin = EndOfText(lines) /\ reader.dir = "prev")
       => /\ IsPrefix(reader.run, Reverse(BufferText(lines)))
          /\ reader.ended => /\ reader.run = Reverse(BufferText(lines))
                             /\ reader.caret = Location(0, 0)

\* C19: prev() is the inverse of next(): when next() returned a character, an
\* immediately following prev() returns the same character and restores the
\* reader position; when next() returned None at the end of the buffer it
\* left the position unchanged and a following prev() returns the last
\* character of the text.
C19_PrevInvertsNext ==
    [][(last.op = "next" /\ ~aborted /\ last'.op = "prev")
       => /\ ~aborted'
          /\ IF last.res # "None"
             THEN last'.res = last.res /\ reader'.caret = last.loc
             ELSE /\ reader.caret = last.loc
                  /\ BufferText(lines) # <<>>
                         => last'.res = BufferText(lines)[Len(BufferText(lines))]
      ]_vars

\* C20: peek() returns the value the next call of next() would return and
\* does not move the reader; it returns None iff the reader is at the end of
\* the last line.
C20_PeekIsNext ==
    (last.op = "peek" /\ ~aborted)
    => /\ reader.caret = last.loc
       /\ reader_next(lines, reader.caret).res = "Ok"
       /\ last.res = reader_next(lines, reader.caret).ch
       /\ (last.res = "None")
              <=> reader.caret = Location(Len(lines[Len(lines)]), Len(lines) - 1)

\* C21: skip_until(p) succeeds with the reader just before the first
\* character at or after its position that satisfies p (the next call of
\* next() returns it), back_until(p) succeeds with the reader just after the
\* first such character before its position (prev() returns it); when there is
\* no such character they fail with EndOfFile and the reader position is the
\* position before the call.  Neither aborts.
C21_ScanFindsFirstOrRestores ==
    /\ last.op = "skip_until" =>
         LET t == BufferText(last.lines0)
             k == TextIndex(last.lines0, last.loc)
             hits == {i \in (k + 1)..Len(t) : t[i] \in ScanSet(last.cmd)}
         IN  /\ last.res # "panic"
             /\ hits = {} => (last.res = "EndOfFile" /\ reader.caret = last.loc)
             /\ hits # {} =>
                  /\ last.res = "Ok"
                  /\ \A i \in hits : TextIndex(lines, reader.caret) + 1 <= i
                  /\ reader_next(lines, reader.caret).ch \in ScanSet(last.cmd)
    /\ last.op = "back_until" =>
         LET t == BufferText(last.lines0)
             k == TextIndex(last.lines0, last.loc)
             hits == {i \in 1..k : t[i] \in ScanSet(last.cmd)}
         IN  /\ last.res # "panic"
             /\ hits = {} => (last.res = "EndOfFile" /\ reader.caret = last.loc)
             /\ hits # {} =>
                  /\ last.res = "Ok"
                  /\ \A i \in hits : i <= TextIndex(lines, reader.caret)
                  /\ reader_prev(lines, reader.caret).ch \in ScanSet(last.cmd)

\* C22: NextWord from a valid caret moves the caret to the first non-blank
\* character that follows the first blank character at or after the caret
\* (the newline between lines counts as blank), columns counted in
\* characters, and does not abort.
C22_NextWord ==
    [][(/\ last'.op = "move_caret"
        /\ last'.cmd = "NextWord"
        /\ ValidByChars(lines, caret))
       => /\ ~aborted'
          /\ NextWordIndex(BufferText(lines), CharIndex(lines, caret)) # -1
             => caret' = LocOfIndex(lines, NextWordIndex(BufferText(lines),
                                                         CharIndex(lines, caret)))
      ]_vars

\* C23: PrevWord from a valid caret moves the caret to the start of the word
\* preceding the caret's word (with a non-blank under the caret back to a
\* blank, to a non-blank, to a blank; otherwise back to a non-blank, then to a
\* blank), columns counted in characters, and does not abort.
C23_PrevWord ==
    [][(/\ last'.op = "move_caret"
        /\ last'.cmd = "PrevWord"
        /\ ValidByChars(lines, caret))
       => /\ ~aborted'
          /\ PrevWordIndex(BufferText(lines), CharIndex(lines, caret)) # -1
             => caret' = LocOfIndex(lines, PrevWordIndex(BufferText(lines),
                                                         CharIndex(lines, caret)))
      ]_vars

C25_LeftRight ==
    [][last'.op = "move_caret"
       => /\ last'.cmd = "Right"
             => /\ ~aborted'
                /\ caret' = IF caret.x = chars_count(lines[caret.y + 1])
                            THEN (IF caret.y + 1 < Len(lines)
                                  THEN Location(0, caret.y + 1) ELSE caret)
                            ELSE Location(caret.x + 1, caret.y)
                /\ (ValidByChars(lines, caret) /\ caret # EndOfText(lines))
                   => move_caret_left(lines, caret', display_area',
                                      buffer_display_offset', need_printing').caret
                      = caret
          /\ last'.cmd = "Left"
             => /\ ~aborted'
                /\ caret' = IF caret.x = 0
                            THEN (IF caret.y > 0
                                  THEN Location(chars_count(lines[caret.y]), caret.y - 1)
                                  ELSE caret)
                            ELSE Location(caret.x - 1, caret.y)
      ]_vars

\* C26: Up and Down change caret.y by one row and set caret.x to the minimum
\* of the old caret.x and the character count of the destination line; Up on
\* row 0 and Down on the last line leave the caret and the buffer unchanged.
C26_UpDown ==
    [][(last'.op = "move_caret" /\ last'.cmd \in {"Up", "Down"})
       => /\ ~aborted'
          /\ lines' = lines
          /\ last'.cmd = "Up"
             => caret' = IF caret.y = 0 THEN caret
                         ELSE Location(Min(caret.x, chars_count(lines[caret.y])),
                                       caret.y - 1)
          /\ last'.cmd = "Down"
             => caret' = IF caret.y + 1 >= Len(lines) THEN caret
                         ELSE Location(Min(caret.x, chars_count(lines[caret.y + 2])),
                                       caret.y + 1)
      ]_vars

\* Up onto a shorter line that holds a two-byte character.
C26_Witness ==
    /\ last.op = "move_caret" /\ last.cmd = "Up" /\ last.res = "Ok"
    /\ last.changed
    /\ Len(lines) >= caret.y + 2
    /\ caret.x = chars_count(lines[caret.y + 1])
    /\ caret.x < Len(lines[caret.y + 1])
    /\ chars_count(lines[caret.y + 2]) > caret.x

\* C27: LineEnd sets caret.x to the character count of the current line,
\* GlobalEnd sets the caret to (character count of the last line,
\* line_count - 1), LineStart sets column 0 and GlobalStart sets (0,0); with
\* multi-byte characters the column is the character count, not the byte
\* length.
C27_LineAndGlobalEnds ==
    [][last'.op = "move_caret"
       => /\ last'.cmd = "LineEnd"
             => /\ ~aborted'
                /\ caret' = Location(chars_count(lines[caret.y + 1]), caret.y)
          /\ last'.cmd = "GlobalEnd"
             => /\ ~aborted'
                /\ caret' = EndOfText(lines)
          /\ last'.cmd = "LineStart"
             => (~aborted' /\ caret' = Location(0, caret.y))
          /\ last'.cmd = "GlobalStart"
             => (~aborted' /\ caret' = Location(0, 0))
      ]_vars

\* The characters the claim expects on display row `row`: those of line
\* row + off.y from character column off.x, at most area.width of them.
ExpectedRow(ls, area, off, row) ==
    IF row + off.y >= Len(ls) THEN <<>>
    ELSE LET cs == Decode(ls[row + off.y + 1])
         IN  SubSeq(cs, off.x + 1, Min(Len(cs), off.x + area.width))

\* C28: print_to emits, for every display row r in [0, height), the characters
\* of line r + offset.y from character column offset.x up to at most width
\* characters, nothing when offset.x is at or beyond the line's character count
\* or the line does not exist, and never slices inside a multi-byte character
\* (it does not abort).
C28_PrintToRows ==
    [][last'.op = "print_to"
       => /\ ~aborted'
          /\ Len(last'.out) = display_area.height
          /\ \A r \in 1..display_area.height :
               Decode(last'.out[r])
                 = ExpectedRow(lines, display_area, buffer_display_offset, r - 1)
      ]_vars

\* C29: print_welcome_to returns Ok only when the display area is strictly
\* larger than the welcome buffer in both width and height, and otherwise
\* returns BufferSizeExceeds with nothing sent to the terminal; a welcome
\* buffer of size (40,5) fails against the area (40,5) and succeeds against
\* (41,6).
C29_WelcomeFit ==
    last.op = "print_welcome_to"
    => /\ last.res \in {"Ok", "BufferSizeExceeds"}
       /\ last.res = "Ok"
          <=> /\ \A i \in 1..Len(welcome_buffer) :
                   display_area.width > Len(welcome_buffer[i])
              /\ display_area.height > Len(welcome_buffer)
       /\ last.res = "Ok"
          => /\ \A i \in 1..Len(welcome_buffer) :
                  display_area.width > chars_count(welcome_buffer[i])
             /\ Len(last.out) = Len(welcome_buffer)
       /\ last.res = "BufferSizeExceeds" => last.out = <<>>
       /\ size(welcome_buffer) = Size(40, 5)
          => /\ display_area = Size(40, 5) => last.res = "BufferSizeExceeds"
             /\ display_area = Size(41, 6) => last.res = "Ok"

\* The welcome text of size (40,5) was refused by the area (40,5).
C29_Witness ==
    /\ last.op = "print_welcome_to"
    /\ last.res = "BufferSizeExceeds"
    /\ last.out = <<>>
    /\ size(welcome_buffer) = Size(40, 5)
    /\ display_area = Size(40, 5)

\* a <= b as PartialOrd derives it from partial_cmp
SizeLe(a, b) == partial_cmp(a, b) \in {"Less", "Equal"}

\* C30: Size::partial_cmp returns Less iff both width and height are strictly
\* smaller, Greater iff both are strictly larger, Equal iff both are equal and
\* None in every other case, including when exactly one dimension is equal;
\* the comparison is a partial order (antisymmetric, transitive).
C30_SizePartialOrder ==
    last.op = "print_welcome_to"
    => LET a == display_area
           b == Size(MaxOf({Len(welcome_buffer[i]) : i \in 1..Len(welcome_buffer)}
                           \cup {0}),
                     Len(welcome_buffer))
           lt == a.width < b.width /\ a.height < b.height
           gt == a.width > b.width /\ a.height > b.height
           eq == a.width = b.width /\ a.height = b.height
       IN  /\ last.cmd \in {"Less", "Greater", "Equal", "None"}
           /\ last.cmd = "Less" <=> lt
           /\ last.cmd = "Greater" <=> gt
           /\ last.cmd = "Equal" <=> eq
           /\ last.cmd = "None" <=> ~(lt \/ gt \/ eq)
           /\ ((a.width = b.width) # (a.height = b.height)) => last.cmd = "None"
           /\ last.cmd = "Less" <=> partial_cmp(b, a) = "Greater"
           /\ (SizeLe(a, b) /\ SizeLe(b, a)) => a = b
           /\ \A c \in WelcomeAreas : (SizeLe(a, b) /\ SizeLe(b, c)) => SizeLe(a, c)

\* An area as wide as the welcome buffer but of another height was compared
\* with it: incomparable.
C30_Witness ==
    /\ last.op = "print_welcome_to"
    /\ last.cmd = "None"
    /\ display_area.width = size(welcome_buffer).width
    /\ display_area.height # size(welcome_buffer).height

\* C32: move_caret with PageUp, PageDown, PrevTrace or NextTrace does nothing
\* or reports that the command is not supported: the buffer, the caret, the
\* offset and the dirty flag are unchanged and the program does not abort.
C32_UnimplementedMovesAreNoOps ==
    [][(/\ last'.op = "move_caret"
        /\ last'.cmd \in {"PageUp", "PageDown", "PrevTrace", "NextTrace"})
       => /\ ~aborted'
          /\ lines' = lines
          /\ caret' = caret
          /\ buffer_display_offset' = buffer_display_offset
          /\ need_printing' = need_printing
      ]_vars

\* C34: move_caret_to with a location that fails check_caret returns that
\* error and leaves the caret, the lines, the scroll offset and need_printing
\* as they were before the call.
C34_RejectedMoveChangesNothing ==
    [][(last'.op = "move_caret_to" /\ check_caret(lines, last'.loc) # "Ok")
       => /\ ~aborted'
          /\ last'.res = check_caret(lines, last'.loc)
          /\ last'.res \in {"CaretOutOfHeight", "CaretOutOfLen"}
          /\ caret' = caret
          /\ lines' = lines
          /\ buffer_display_offset' = buffer_display_offset
          /\ need_printing' = need_printing
          /\ display_area' = display_area
      ]_vars

\* A column past the end of its line was refused while the caret stood
\* elsewhere and the area was clean.
C34_Witness ==
    /\ last.op = "move_caret_to"
    /\ last.res = "CaretOutOfLen"
    /\ caret # last.loc
    /\ caret # Location(0, 0)
    /\ ~need_printing
    /\ ~aborted

\* update_display_offset has just run to completion on a display tall enough
\* for the vertical padding.
AfterUpdateOnTallDisplay ==
    /\ ~aborted
    /\ last.op \in {"update_display_offset", "move_caret_to", "move_caret"}
    /\ last.res = "Ok"
    /\ display_area.height >= 2 * VERTICAL_PADDING

\* Display rows above and below the caret row, and whether the last buffer
\* line is shown on or above the bottom row.
RowsAboveCaret == caret.y - buffer_display_offset.y

RowsBelowCaret == display_area.height - 1 - (caret.y - buffer_display_offset.y)

LastLineShown == Len(lines) - 1 - buffer_display_offset.y <= display_area.height - 1

\* C33: after update_display_offset on a display of height >=
\* 2 * VERTICAL_PADDING at least VERTICAL_PADDING rows are visible above the
\* caret row unless offset.y = 0, and at least VERTICAL_PADDING rows are
\* visible below it unless the last buffer line is shown on or above the
\* bottom row.
C33_PaddingRows ==
    AfterUpdateOnTallDisplay
    => /\ buffer_display_offset.y = 0 \/ RowsAboveCaret >= VERTICAL_PADDING
       /\ LastLineShown \/ RowsBelowCaret >= VERTICAL_PADDING

\* Document order on caret positions.
Before(a, b) == a.y < b.y \/ (a.y = b.y /\ a.x < b.x)

\* C37: from a valid caret, NextWord before GlobalEnd moves the caret strictly
\* forward in document order and NextWord at GlobalEnd leaves it there, so
\* repeated NextWord reaches GlobalEnd in finitely many steps; PrevWord away
\* from (0,0) moves the caret strictly backward and PrevWord at (0,0) leaves
\* it there.
C37_WordMovesProgress ==
    [][(last'.op = "move_caret" /\ ValidByChars(lines, caret))
       => /\ last'.cmd = "NextWord"
             => /\ ~aborted'
                /\ IF caret = EndOfText(lines) THEN caret' = caret
                   ELSE Before(caret, caret')
                /\ ~Before(EndOfText(lines), caret')
          /\ last'.cmd = "PrevWord"
             => /\ ~aborted'
                /\ IF caret = Location(0, 0) THEN caret' = caret
                   ELSE Before(caret', caret)
      ]_vars

\* C31: the text StatusBar::print_to emits lies inside the bar's columns [display_start, display_start + display_width); with
\* Left(l,r) or Right(l,r) and display_width > l + r the content lies inside
\* [display_start + l, display_start + display_width - r], left-aligned
\* respectively right-aligned there, and when display_width <= l + r the
\* padding is ignored and the full width is used; the call does not abort.
C31_StatusTextInsideBar ==
    [][last'.op = "status_bar_print_to"
       => /\ ~aborted'
          /\ \A i \in 1..Len(last'.out) :
               LET e == last'.out[i]
               IN  /\ e.x >= status_bar.display_start
                   /\ e.x + chars_count(e.text)
                        <= status_bar.display_start + status_bar.display_width
          /\ LET e == last'.out[Len(last'.out)]
                 p == status_bar.content_packing
                 w == status_bar.display_width
                 padded == w > p.l_padding + p.r_padding
                 lo == status_bar.display_start + (IF padded THEN p.l_padding ELSE 0)
                 hi == status_bar.display_start + w - (IF padded THEN p.r_padding ELSE 0)
             IN  /\ IsPrefix(Decode(e.text), Decode(status_bar.content))
                 /\ p.kind \in {"Left", "Right"}
                    => /\ lo <= e.x
                       /\ e.x + chars_count(e.text) <= hi
                       /\ chars_count(e.text)
                            = Min(chars_count(status_bar.content), hi - lo)
                 /\ p.kind = "Left" => e.x = lo
                 /\ p.kind = "Right" => e.x + chars_count(e.text) = hi
      ]_vars

\* handle_event read a press of key
Pressed(rec, key) ==
    rec.op = "handle_event" /\ rec.cmd = "Press" /\ rec.text = <<key>>

\* C35 as stated: the state only moves forward; Ctrl+Q pressed in Welcoming
\* or Editing sets Exiting and run returns without reading another event; any
\* other key press in Welcoming sets Editing and marks the edit area dirty
\* without touching the buffer; no event moves the state back to Welcoming or
\* out of Exiting; build starts in Editing exactly when the welcome config is
\* Empty.
C35_AnyOtherKeyLeavesWelcome ==
    [][/\ Pressed(last', "CtrlQ") => state' = "Exiting" /\ ~aborted'
       /\ state = "Exiting" => /\ last'.op # "handle_event"
                               /\ pc = "top" => pc' = "done"
       /\ (last'.op = "handle_event" /\ last'.cmd = "Press"
           /\ ~Pressed(last', "CtrlQ") /\ state = "Welcoming")
          => /\ ~aborted'
             /\ state' = "Editing"
             /\ need_printing'
             /\ lines' = lines /\ caret' = caret
       /\ state' = "Welcoming" => state = "Welcoming"
       /\ state = "Exiting" => state' = "Exiting"
       /\ state = "Editing" => state' \in {"Editing", "Exiting"}
       /\ (last'.op = "build" /\ pc' = "top")
          => (state' = "Editing" <=> last'.cmd = "Empty")
      ]_vars

\* C35 amended: as above, except that in a build with debug assertions a
\* Ctrl+C press panics in every state, Welcoming included.
C35_StateMovesForward ==
    [][/\ Pressed(last', "CtrlQ") => state' = "Exiting" /\ ~aborted'
       /\ state = "Exiting" => /\ last'.op # "handle_event"
                               /\ pc = "top" => pc' = "done"
       /\ (last'.op = "handle_event" /\ last'.cmd = "Press"
           /\ ~Pressed(last', "CtrlQ") /\ state = "Welcoming")
          => IF Pressed(last', "CtrlC") /\ debug_assertions
             THEN aborted'
             ELSE /\ ~aborted'
                  /\ state' = "Editing"
                  /\ need_printing'
                  /\ lines' = lines /\ caret' = caret
       /\ state' = "Welcoming" => state = "Welcoming"
       /\ state = "Exiting" => state' = "Exiting"
       /\ state = "Editing" => state' \in {"Editing", "Exiting"}
       /\ (last'.op = "build" /\ pc' = "top")
          => (state' = "Editing" <=> last'.cmd = "Empty")
      ]_vars

\* A character key pressed on the welcome screen of an editor built with a
\* two-line buffer: the state is Editing, the edit area is dirty and the
\* buffer is as build left it.
C35_Witness ==
    /\ Pressed(last, "Char")
    /\ pc = "top"
    /\ state = "Editing"
    /\ need_printing
    /\ welcome_buffer # <<>>
    /\ lines = <<<<"a">>, <<"a">>>>
    /\ caret = Location(1, 1)

\* C36: in every iteration of run the repaint step is entered exactly when the
\* edit area or the status bar is dirty; when the step finishes, both flags
\* are false before the next event is read, also when the welcome paint was
\* skipped for BufferSizeExceeds, which does not end the loop.
C36_RepaintIffDirty ==
    [][/\ (pc = "top" /\ state # "Exiting")
          => /\ last'.op = "repaint" <=> (need_printing \/ status_bar.need_printing)
             /\ pc' = "event" => ~need_printing' /\ ~status_bar'.need_printing
             /\ (state = "Welcoming" /\ (need_printing \/ status_bar.need_printing)
                 /\ partial_cmp(display_area, size(welcome_buffer)) # "Greater"
                 /\ last'.res # "IoErr")
                => pc' = "event" /\ last'.res = "skipped"
       /\ last'.op = "handle_event"
          => pc = "event" /\ ~need_printing /\ ~status_bar.need_printing
      ]_vars

\* The welcome paint was skipped and the loop waits for the next event with
\* both flags cleared.
C36_Witness ==
    /\ last.op = "repaint"
    /\ last.res = "skipped"
    /\ state = "Welcoming"
    /\ pc = "event"
    /\ ~need_printing
    /\ ~status_bar.need_printing

====
